---- MODULE Spec2Model ----
(***************************************************************************)
(* Model of the MCP connection manager (McpService, src/src/service.ts).   *)
(*                                                                         *)
(* JavaScript runs every handler to its next await without interruption;   *)
(* other handlers and transport callbacks run only at await points.  The   *)
(* variable cur holds the slot whose handler is running synchronously (0   *)
(* when every handler is suspended at an await), so that the small steps   *)
(* of one synchronous segment are never interleaved with anything else.    *)
(***************************************************************************)
EXTENDS Integers, Sequences, FiniteSets, TLC

(***************************************************************************)
(* Bounds of the model.                                                    *)
(***************************************************************************)
MaxOps == 2        \* handlers started in one behaviour
MaxCb == 1         \* transport callbacks fired in one behaviour
MaxTasks == 2      \* handlers that may be in flight together in SpecRace
MaxReads == 2      \* readResource calls in one behaviour of SpecRead
MaxTools == 2      \* tools a provider lists in SpecRead
MaxActs == 2       \* action handlers and callTool calls in one behaviour of SpecAct
MaxRetries == 2    \* the largest configured maximum of selection attempts
MaxParts == 3      \* parts of a text handed to a validator in SpecText
MaxWords == 4      \* words of a user's request in SpecText
MaxRegs == 3       \* calls of registerMcpService in one behaviour of SpecReg

Names == {"a", "b"}

\* connection objects (transport + client) ever created: every handler
\* creates at most one per name
MaxObj == MaxOps * Cardinality(Names)
ObjIds == 1..MaxObj

(***************************************************************************)
(* Generic helpers on sequences.                                           *)
(***************************************************************************)
Range(s) == {s[i] : i \in 1..Len(s)}

Front(s) == SubSeq(s, 1, Len(s) - 1)

Last(s) == s[Len(s)]

RECURSIVE SelectSeqBy(_, _)
\* Array.prototype.filter with the predicate given as the set of kept values
SelectSeqBy(s, keep) ==
    IF s = <<>> THEN <<>>
    ELSE IF Head(s) \in keep THEN <<Head(s)>> \o SelectSeqBy(Tail(s), keep)
         ELSE SelectSeqBy(Tail(s), keep)

(***************************************************************************)
(* Server configurations.  A configuration object is an ordered list of    *)
(* key/value pairs (a JavaScript object keeps insertion order).            *)
(***************************************************************************)
\* a missing property; like the empty string it is falsy
Undefined == <<>>

CfgStdio == <<<<"type", <<"stdio">>>>, <<"command", <<"run">>>>>>
CfgSse == <<<<"type", <<"sse">>>>, <<"url", <<"http://host/sse">>>>>>
CfgN8n == <<<<"type", <<"sse">>>>, <<"url", <<"https://x.", "n8n.cloud", "/sse">>>>>>
CfgNoCommand == <<<<"type", <<"stdio">>>>>>
CfgNoUrl == <<<<"type", <<"sse">>>>>>

\* property read config[key]
Get(cfg, key) ==
    IF \E i \in 1..Len(cfg) : cfg[i][1] = key
    THEN cfg[CHOOSE i \in 1..Len(cfg) : cfg[i][1] = key][2]
    ELSE Undefined

RECURSIVE JSONstringify(_)
\* JSON.stringify of a configuration object: the keys and values in
\* insertion order, as a list of tokens
JSONstringify(cfg) ==
    IF cfg = <<>> THEN <<>>
    ELSE <<cfg[1][1], ":", cfg[1][2]>> \o JSONstringify(Tail(cfg))

\* a parse that keeps the first property only
JSONparseFirstProperty(str) ==
    IF Len(str) < 3 THEN <<>> ELSE <<<<str[1], str[3]>>>>

RECURSIVE JSONparse(_)
\* JSON.parse of a serialized configuration
JSONparse(str) ==
    IF Len(str) < 3 THEN <<>>
    ELSE <<<<str[1], str[3]>>>> \o JSONparse(SubSeq(str, 4, Len(str)))

\* String.prototype.includes on a url given as a list of fragments
Includes(url, fragment) ==
    \E i \in 1..Len(url) : url[i] = fragment

\* transport builders without the checks of lines 206 and 223
BuildNeverThrows(cfg) == FALSE

\* buildStdioClientTransport / buildSseClientTransport: does the build throw
BuildThrows(cfg) ==
    IF Get(cfg, "type") = <<"stdio">>
    THEN Get(cfg, "command") = Undefined
    ELSE Get(cfg, "url") = Undefined

\* a detection that never finds an n8n server
IsN8nNever(cfg) == FALSE

\* lines 267-270, with the precedence of && over ||
IsN8nServer(cfg) ==
    \/ (Get(cfg, "type") = <<"sse">> /\ Includes(Get(cfg, "url"), "n8n.cloud"))
    \/ Includes(Get(cfg, "url"), "n8n.io")

(***************************************************************************)
(* Capabilities and their synthesis (connectToServer, lines 280-357).      *)
(***************************************************************************)
\* A URI is the list of its segments between "/" characters:
\* "mcp://n8n/synthetic/calculator" is "mcp:", "", "n8n", "synthetic",
\* "calculator".  The names of servers and tools hold no "/".
CalculatorUri == <<"mcp:", "", "n8n", "synthetic", "calculator">>
WeatherUri == <<"mcp:", "", "n8n", "synthetic", "weather", "{location}">>

Tool(n, d) == [name |-> n, description |-> d]

\* name.charAt(0).toUpperCase() + name.slice(1)
Capitalize(n) ==
    CASE n = "calculator" -> "Calculator"
      [] n = "weather" -> "Weather"
      [] n = "echo" -> "Echo"
      [] n = "add" -> "Add"
      [] OTHER -> n

\* a tool URI that leaves the tool name out
ToolUriOfServer(server, toolName) == <<"mcp:", "", server, "synthetic", "tool">>

ToolUri(server, toolName) == <<"mcp:", "", server, "synthetic", "tool", toolName>>
ToolTemplateUri(server, toolName) ==
    <<"mcp:", "", server, "synthetic", "tool-template", toolName>>

ToolResource(server, tool) ==
    [uri |-> ToolUri(server, tool.name),
     name |-> <<Capitalize(tool.name), " Tool">>,
     description |-> IF tool.description # "" THEN tool.description
                     ELSE "Access the tool functionality",
     templateUri |-> ToolTemplateUri(server, tool.name)]

ToolTemplate(server, tool) ==
    [uriTemplate |-> ToolTemplateUri(server, tool.name),
     name |-> <<Capitalize(tool.name), " Template">>,
     description |-> IF tool.description # "" THEN tool.description
                     ELSE "Template for the tool functionality"]

CalculatorResource ==
    [uri |-> CalculatorUri, name |-> <<"Calculator Resource">>,
     description |-> "calculator", templateUri |-> CalculatorUri]
CalculatorTemplate ==
    [uriTemplate |-> CalculatorUri, name |-> <<"Calculator Resource">>,
     description |-> "calculator"]
WeatherResource ==
    [uri |-> WeatherUri, name |-> <<"Weather Information Resource">>,
     description |-> "weather", templateUri |-> WeatherUri]
WeatherTemplate ==
    [uriTemplate |-> WeatherUri, name |-> <<"Weather Information Resource">>,
     description |-> "weather"]

\* a push without the test of lines 313, 333 and 351
PushResourceAlways(list, r) == Append(list, r)

\* push unless an entry with the same uri is present
PushResource(list, r) ==
    IF \E i \in 1..Len(list) : list[i].uri = r.uri THEN list ELSE Append(list, r)

\* a push without the test of lines 317, 336 and 354
PushTemplateAlways(list, t) == Append(list, t)

\* push unless an entry with the same uriTemplate is present
PushTemplate(list, t) ==
    IF \E i \in 1..Len(list) : list[i].uriTemplate = t.uriTemplate
    THEN list ELSE Append(list, t)

RECURSIVE GenericResources(_, _, _)
\* the loop of lines 289-320 over the resources
GenericResources(server, tools, acc) ==
    IF tools = <<>> THEN acc
    ELSE IF Head(tools).name = "calculator"
         THEN GenericResources(server, Tail(tools), acc)
         ELSE GenericResources(server, Tail(tools),
                               PushResource(acc, ToolResource(server, Head(tools))))

RECURSIVE GenericTemplates(_, _, _)
\* the loop of lines 289-320 over the templates
GenericTemplates(server, tools, acc) ==
    IF tools = <<>> THEN acc
    ELSE IF Head(tools).name = "calculator"
         THEN GenericTemplates(server, Tail(tools), acc)
         ELSE GenericTemplates(server, Tail(tools),
                               PushTemplate(acc, ToolTemplate(server, Head(tools))))

HasTool(tools, n) == \E i \in 1..Len(tools) : tools[i].name = n

\* a synthesis that pushes the two special entries before the generic ones
SynthesizeResourcesSpecialsFirst(server, isN8n, tools, actualResources) ==
    LET calc == IF HasTool(tools, "calculator")
                THEN PushResource(actualResources, CalculatorResource)
                ELSE actualResources
        weather == IF HasTool(tools, "weather")
                   THEN PushResource(calc, WeatherResource) ELSE calc
    IN  IF isN8n \/ Len(actualResources) = 0
        THEN GenericResources(server, tools, weather) ELSE weather

\* lines 280-357 over the resources: the real ones, the generic loop, the
\* calculator entry, the weather entry
SynthesizeResources(server, isN8n, tools, actualResources) ==
    LET generic == IF isN8n \/ Len(actualResources) = 0
                   THEN GenericResources(server, tools, actualResources)
                   ELSE actualResources
        calc == IF HasTool(tools, "calculator")
                THEN PushResource(generic, CalculatorResource) ELSE generic
    IN  IF HasTool(tools, "weather") THEN PushResource(calc, WeatherResource)
        ELSE calc

SynthesizeTemplates(server, isN8n, tools, actualResources, actualTemplates) ==
    LET generic == IF isN8n \/ Len(actualResources) = 0
                   THEN GenericTemplates(server, tools, actualTemplates)
                   ELSE actualTemplates
        calc == IF HasTool(tools, "calculator")
                THEN PushTemplate(generic, CalculatorTemplate) ELSE generic
    IN  IF HasTool(tools, "weather") THEN PushTemplate(calc, WeatherTemplate)
        ELSE calc

(***************************************************************************)
(* What a provider may answer.                                             *)
(***************************************************************************)
\* an answer is a list, or an error with its message
Ok(list) == [err |-> "", list |-> list]
Failure(msg) == [err |-> msg, list |-> <<>>]
MethodNotFound == Failure("Method not found")
OtherError == Failure("request failed")
IsError(resp) == resp.err # ""

EchoTool == Tool("echo", "echoes")
RealResource == [uri |-> <<"file:", "", "", "data">>, name |-> <<"data">>,
                 description |-> "data", templateUri |-> <<>>]
RealTemplate == [uriTemplate |-> <<"file:", "", "", "{path}">>, name |-> <<"files">>,
                 description |-> "files"]

ToolsResponses == {OtherError, Ok(<<EchoTool>>)}
ResourcesResponses == {MethodNotFound, OtherError, Ok(<<RealResource>>)}
TemplatesResponses == {MethodNotFound, OtherError}

\* messages appended to a connection's error text
TransportErrorMsg == <<"transport error">>
HandshakeErrorMsg == <<"handshake failed">>
BuildErrorMsg == <<"missing command or url">>

(***************************************************************************)
(* The state.                                                              *)
(***************************************************************************)
VARIABLES
    connections,            \* this.connections: the connection objects, in order
    conn,                   \* the connection objects ever created, by identity
    nObj,                   \* how many connection objects were created
    hasResourcefulServers,  \* this.hasResourcefulServers
    mcpProvider,            \* this.mcpProvider
    initializationError,    \* this.initializationError
    task,                   \* per slot: the call stack of the handler in flight
    ret,                    \* per slot: how the last handler of the slot ended
    cur,                    \* the slot running synchronously, 0 at an await
    workload,               \* what the environment may ask for: slots, names, maps,
                            \* provider answers, how many handlers
    exc,                    \* per slot: an exception is propagating to the caller
    cbCount,                \* transport callbacks fired so far
    opCount,                \* handlers started so far
    hist,                   \* the connection set as the last reconciliation left it
    read,                   \* the readResource call in flight, or how the last ended
    act,                    \* the action handler or callTool call in flight, or how
                            \* the last ended
    reg                     \* index.ts: globalServiceInstance, the runtime's
                            \* registry and the calls of registerMcpService

vars == <<connections, conn, nObj, hasResourcefulServers, mcpProvider,
          initializationError, task, ret, cur, workload, exc, cbCount, opCount,
          hist, read, act, reg>>

\* the state of the one McpService object
serviceVars == <<connections, conn, nObj, hasResourcefulServers, mcpProvider,
                 initializationError, task, ret, cur, workload, exc, cbCount,
                 opCount, hist>>

NoError == "null"

NoConn ==
    [name |-> "", config |-> <<>>, status |-> "none", error |-> <<>>,
     tools |-> <<>>, resources |-> <<>>, resourceTemplates |-> <<>>,
     cbReg |-> FALSE, hs |-> "none", tClose |-> 0, cClose |-> 0,
     tCloseThrew |-> FALSE, released |-> FALSE, overlap |-> FALSE,
     cbFired |-> FALSE, restarting |-> FALSE,
     finalized |-> FALSE, actual |-> <<>>, cbLate |-> FALSE]

NoFrame ==
    [fn |-> "none", pc |-> "none", name |-> "", cfg |-> <<>>, obj |-> 0,
     todo |-> <<>>, desired |-> <<>>, arr |-> <<>>, idx |-> 0, live |-> FALSE,
     tools |-> <<>>, res |-> <<>>, issued |-> FALSE, built |-> FALSE,
     repeat |-> FALSE, stopped |-> FALSE]

NoRet ==
    [op |-> "none", name |-> "", desired |-> <<>>, threw |-> FALSE,
     found |-> FALSE, pre |-> <<>>, repeat |-> FALSE]

\* how a readResource call ends: with a response, or with an error thrown
Response(uri, mimeType, text) ==
    [kind |-> "return",
     contents |-> <<[uri |-> uri, mimeType |-> mimeType, text |-> text]>>,
     error |-> ""]
Thrown(msg) == [kind |-> "throw", contents |-> <<>>, error |-> msg]

\* no readResource call was made; obj is the connection the call found, tools
\* the tools it read from it, got the answer to its remote call
NoRead ==
    [pc |-> "idle", server |-> "", uri |-> <<>>, obj |-> 0, tools |-> <<>>,
     calls |-> <<>>, got |-> Ok(<<>>), out |-> Thrown(""), n |-> 0]

NoHist == [valid |-> FALSE, desired |-> <<>>, conns |-> <<>>, nObj |-> 0, closes |-> 0]

Slots == 1..MaxTasks

\* the desired maps handed to reconciliation: Object.entries order, one
\* entry per name
ConfigsOf(n) ==
    IF n = "a" THEN {CfgStdio, CfgN8n, CfgNoUrl} ELSE {CfgStdio, CfgNoCommand}

DesiredMaps ==
    {<<>>}
    \cup UNION {{<<<<n, c>>>> : c \in ConfigsOf(n)} : n \in Names}
    \cup {<<<<"a", c1>>, <<"b", c2>>>> : c1 \in ConfigsOf("a"), c2 \in ConfigsOf("b")}

DesiredNames(desired) == {desired[i][1] : i \in 1..Len(desired)}

(***************************************************************************)
(* Reads of the state.                                                     *)
(***************************************************************************)
\* this.connections.find(conn => conn.server.name === name), 0 when absent
FindByName(name) ==
    IF \E i \in 1..Len(connections) : conn[connections[i]].name = name
    THEN connections[CHOOSE i \in 1..Len(connections) :
                        /\ conn[connections[i]].name = name
                        /\ \A j \in 1..(i - 1) : conn[connections[j]].name # name]
    ELSE 0

getServerConnection(name) == FindByName(name)

\* this.connections.filter(conn => conn.server.name !== name)
FilterOut(cs, c, name) == SelectSeqBy(cs, {o \in ObjIds : c[o].name # name})

RECURSIVE DedupNames(_, _)
DedupNames(cs, seen) ==
    IF cs = <<>> THEN <<>>
    ELSE IF conn[Head(cs)].name \in seen THEN DedupNames(Tail(cs), seen)
         ELSE <<conn[Head(cs)].name>>
              \o DedupNames(Tail(cs), seen \cup {conn[Head(cs)].name})

\* new Set(this.connections.map(conn => conn.server.name)), in insertion order
CurrentNames == DedupNames(connections, {})

\* getServers(): the server records of the connections, [] after a failed
\* initialization
getServers(cs, c, initErr) ==
    IF initErr # NoError THEN <<>> ELSE [i \in 1..Len(cs) |-> c[cs[i]]]

\* the test of updateResourceAvailability and initializeMcpServers
SomeResourceful(servers) ==
    \E i \in 1..Len(servers) :
        servers[i].status = "connected" /\ Len(servers[i].resources) > 0

\* buildMcpProviderData(servers)
buildMcpProviderData(servers) ==
    [i \in 1..Len(servers) |->
        [name |-> servers[i].name, status |-> servers[i].status,
         tools |-> servers[i].tools, resources |-> servers[i].resources]]

checkResourceAvailability ==
    IF initializationError # NoError THEN FALSE ELSE hasResourcefulServers

\* appendErrorMessage: the new error text
appendErrorMessage(error, msg) ==
    IF error # <<>> THEN error \o <<"\n">> \o msg ELSE msg

TotalCloses ==
    LET RECURSIVE Sum(_)
        Sum(k) == IF k = 0 THEN 0 ELSE conn[k].tClose + conn[k].cClose + Sum(k - 1)
    IN  Sum(nObj)

(***************************************************************************)
(* The call stack of a slot.                                               *)
(***************************************************************************)
Top(t) == Last(task[t])

Idle(t) == task[t] = <<>>

\* labels at which a handler is suspended at an await
ResumePcs ==
    {"u_loop1_ret", "u_deleted", "u_connected", "c_built", "c_handshake",
     "c_tools", "c_res", "c_tmpl", "d_tclose", "d_cclose", "r_deleted",
     "r_connected", "s_deleted", "i_wait", "x_deleted"}

\* slot t is at label pc and may take its next step
At(t, pc) ==
    /\ t \in workload.slots
    /\ ~Idle(t)
    /\ Top(t).pc = pc
    /\ cur = IF pc \in ResumePcs THEN 0 ELSE t

SetTop(stack, f) == [stack EXCEPT ![Len(stack)] = f]

Frame(fn, pc, name) == [NoFrame EXCEPT !.fn = fn, !.pc = pc, !.name = name]

Push(stack, f) == Append(stack, f)

(***************************************************************************)
(* A connection object that is neither in this.connections nor held by a   *)
(* suspended handler can no longer be read by the service: only its        *)
(* transport callbacks still run.  The model forgets the fields of such an *)
(* object and keeps what was done to its transport and client.             *)
(***************************************************************************)
Referenced(tk) ==
    UNION {{tk[s][i].obj : i \in 1..Len(tk[s])} : s \in DOMAIN tk}

Forget(r) ==
    [r EXCEPT !.status = "unreachable", !.error = <<>>,
              !.tools = <<>>, !.resources = <<>>, !.resourceTemplates = <<>>,
              !.hs = "none", !.cbFired = FALSE, !.restarting = FALSE,
              !.finalized = FALSE, !.actual = <<>>]

Unreachable(c, cs, tk) ==
    [o \in DOMAIN c |->
        IF c[o].status = "none" \/ o \in Range(cs) \/ o \in Referenced(tk)
        THEN c[o] ELSE Forget(c[o])]

Pop(stack) == Front(stack)

\* an assignment to this.connections makes a new array: an iteration that
\* began on the old array no longer sees pushes
Unlive(tk) ==
    [s \in DOMAIN tk |->
        [i \in 1..Len(tk[s]) |-> [tk[s][i] EXCEPT !.live = FALSE]]]

\* this.connections.push(o) is seen by an iteration over the same array
PushLive(tk, o) ==
    [s \in DOMAIN tk |->
        [i \in 1..Len(tk[s]) |->
            IF tk[s][i].live
            THEN [tk[s][i] EXCEPT !.arr = Append(tk[s][i].arr, o)]
            ELSE tk[s][i]]]

(***************************************************************************)
(* fetchToolsList / fetchResourcesList / fetchResourceTemplatesList: what  *)
(* each returns for a provider's answer, and whether it throws.            *)
(***************************************************************************)
\* fetches that issue the remote call whatever the status is
FetchIssuedAlways(status) == TRUE

\* the guard of the three fetches: the remote call is issued only on a
\* connection that is connected
FetchIssued(status) == status = "connected"

\* a fetchToolsList that lets the error of listTools escape
fetchToolsListRethrows(resp) ==
    [list |-> IF IsError(resp) THEN <<>> ELSE resp.list, threw |-> IsError(resp)]

\* lines 409-424: the tools of the answer, [] when the call failed
fetchToolsList(resp) ==
    [list |-> IF IsError(resp) THEN <<>> ELSE resp.list, threw |-> FALSE]

fetchResourcesList(resp) ==
    [list |-> IF resp.err = MethodNotFound.err THEN <<>>
              ELSE IF IsError(resp) THEN <<>> ELSE resp.list,
     threw |-> FALSE]

fetchResourceTemplatesList(resp) ==
    [list |-> IF resp.err = MethodNotFound.err THEN <<>>
              ELSE IF IsError(resp) THEN <<>> ELSE resp.list,
     threw |-> FALSE]

(***************************************************************************)
(* connectToServer: the catch block (lines 371-377) and the finally block  *)
(* (lines 378-381).                                                        *)
(***************************************************************************)
\* a catch block that only logs
CatchConnLogsOnly(c, cs, name, msg) == c

\* the catch block: the connection found BY NAME is marked disconnected
CatchConn(c, cs, name, msg) ==
    LET found == {i \in 1..Len(cs) : c[cs[i]].name = name}
    IN  IF found = {} THEN c
        ELSE LET o == cs[CHOOSE i \in found : \A j \in found : i <= j]
             IN  [c EXCEPT ![o].status = "disconnected",
                           ![o].error = appendErrorMessage(c[o].error, msg)]

\* whether connectToServer lets an exception of its try block escape
ConnectRaises == FALSE

Finally(cs, c) ==
    /\ mcpProvider' = buildMcpProviderData(getServers(cs, c, initializationError))
    /\ hasResourcefulServers' =
           SomeResourceful(getServers(cs, c, initializationError))

(***************************************************************************)
(* initialize -> initializeMcpServers -> updateServerConnections           *)
(***************************************************************************)
\* a handler may start: none is running, and the slot is free
MayStart(t) ==
    t \in workload.slots /\ Idle(t) /\ cur = 0 /\ opCount < workload.ops

InitializeCalled(t, desired) ==
    /\ MayStart(t)
    /\ opCount' = opCount + 1
    /\ initializationError' = NoError
    /\ hasResourcefulServers' = FALSE
    /\ task' = [task EXCEPT ![t] =
          << [Frame("initialize", "i_wait", "") EXCEPT
                 !.desired = desired, !.arr = connections,
                 !.repeat = (hist.valid /\ hist.desired = desired)],
             [Frame("update", "u_loop1", "") EXCEPT
                 !.desired = desired, !.todo = CurrentNames] >>]
    /\ cur' = t
    /\ ret' = [ret EXCEPT ![t] = NoRet]
    /\ hist' = IF hist.valid /\ hist.desired = desired THEN hist ELSE NoHist
    /\ UNCHANGED <<connections, conn, nObj, mcpProvider, workload, exc, cbCount>>

StartInitialize(t, desired) ==
    /\ InitializeCalled(t, desired)
    /\ UNCHANGED <<read, act, reg>>

\* getMcpSettings() found no settings: initializeMcpServers returns at once
StartInitializeNoSettings(t) ==
    /\ MayStart(t)
    /\ opCount' = opCount + 1
    /\ initializationError' = NoError
    /\ hasResourcefulServers' = FALSE
    /\ ret' = [ret EXCEPT ![t] = [NoRet EXCEPT !.op = "initialize-nosettings"]]
    /\ hist' = NoHist
    /\ UNCHANGED <<connections, conn, nObj, mcpProvider, task, cur, workload, exc,
                   cbCount>>
    /\ UNCHANGED <<read, act, reg>>

\* the test of line 172 made against the current names instead of the new ones
NotDesiredAmongCurrent(name, desired) == name \notin Range(CurrentNames)

\* line 172: a current name that the new configuration no longer holds
NotDesired(name, desired) == name \notin DesiredNames(desired)

\* the test of line 190 made on the configuration object instead of its
\* serialization: an object never equals the stored string
ConfigComparedUnserialized(config, stored) == TRUE

\* line 190: the serialized new configuration differs from the stored one
ConfigChanged(config, stored) == JSONstringify(config) # stored

\* the first loop (lines 171-176): delete the connections that are not desired
UpdateLoop1(t) ==
    /\ At(t, "u_loop1") \/ At(t, "u_loop1_ret")
    /\ LET f == Top(t)
       IN  IF f.todo = <<>>
           THEN task' = [task EXCEPT ![t] =
                    SetTop(@, [f EXCEPT !.pc = "u_loop2", !.todo = f.desired])]
           ELSE IF NotDesired(Head(f.todo), f.desired)
           THEN task' = [task EXCEPT ![t] =
                    Push(SetTop(@, [f EXCEPT !.pc = "u_loop1_ret",
                                             !.todo = Tail(f.todo)]),
                         Frame("delete", "d_start", Head(f.todo)))]
           ELSE task' = [task EXCEPT ![t] =
                    SetTop(@, [f EXCEPT !.pc = "u_loop1", !.todo = Tail(f.todo)])]
    /\ cur' = t
    /\ UNCHANGED <<connections, conn, nObj, hasResourcefulServers, mcpProvider,
                   initializationError, ret, workload, opCount, exc, cbCount, hist>>
    /\ UNCHANGED <<read, act, reg>>

\* the second loop (lines 178-202): connect what is new, replace what changed
UpdateLoop2(t) ==
    /\ At(t, "u_loop2")
    /\ LET f == Top(t)
       IN  IF f.todo = <<>>
           THEN /\ task' = [task EXCEPT ![t] = Pop(@)]
                /\ cur' = 0
           ELSE LET name == Head(f.todo)[1]
                    config == Head(f.todo)[2]
                    currentConnection == FindByName(name)
                IN  /\ cur' = t
                    /\ IF currentConnection = 0
                       THEN task' = [task EXCEPT ![t] =
                                Push(SetTop(@, [f EXCEPT !.pc = "u_connected"]),
                                     [Frame("connect", "c_start", name) EXCEPT
                                         !.cfg = config])]
                       ELSE IF ConfigChanged(config, conn[currentConnection].config)
                       THEN task' = [task EXCEPT ![t] =
                                Push(SetTop(@, [f EXCEPT !.pc = "u_deleted"]),
                                     Frame("delete", "d_start", name))]
                       ELSE task' = [task EXCEPT ![t] =
                                SetTop(@, [f EXCEPT !.todo = Tail(f.todo)])]
    /\ UNCHANGED <<connections, conn, nObj, hasResourcefulServers, mcpProvider,
                   initializationError, ret, workload, opCount, exc, cbCount, hist>>
    /\ UNCHANGED <<read, act, reg>>

\* line 193: after the awaited deleteConnection, connect the replacement
UpdateAfterDelete(t) ==
    /\ At(t, "u_deleted")
    /\ LET f == Top(t)
       IN  IF exc[t]
           THEN task' = [task EXCEPT ![t] =
                    SetTop(@, [f EXCEPT !.pc = "u_loop2", !.todo = Tail(f.todo)])]
           ELSE task' = [task EXCEPT ![t] =
                    Push(SetTop(@, [f EXCEPT !.pc = "u_connected"]),
                         [Frame("connect", "c_start", Head(f.todo)[1]) EXCEPT
                             !.cfg = Head(f.todo)[2]])]
    /\ exc' = [exc EXCEPT ![t] = FALSE]
    /\ cur' = t
    /\ UNCHANGED <<connections, conn, nObj, hasResourcefulServers, mcpProvider,
                   initializationError, ret, workload, opCount, cbCount, hist>>
    /\ UNCHANGED <<read, act, reg>>

\* after the awaited connectToServer (its exception, if any, is logged)
UpdateAfterConnect(t) ==
    /\ At(t, "u_connected")
    /\ task' = [task EXCEPT ![t] =
           SetTop(@, [Top(t) EXCEPT !.pc = "u_loop2", !.todo = Tail(Top(t).todo)])]
    /\ exc' = [exc EXCEPT ![t] = FALSE]
    /\ cur' = t
    /\ UNCHANGED <<connections, conn, nObj, hasResourcefulServers, mcpProvider,
                   initializationError, ret, workload, opCount, cbCount, hist>>
    /\ UNCHANGED <<read, act, reg>>

\* initializeMcpServers after the awaited updateServerConnections
\* (lines 118-126, and the catch of lines 128-135)
InitAfterUpdate(t) ==
    /\ At(t, "i_wait")
    /\ LET f == Top(t)
           initErr == IF exc[t] THEN "Failed during initializeMcpServers execution"
                      ELSE initializationError
           servers == getServers(connections, conn, initErr)
       IN  /\ initializationError' = initErr
           /\ IF exc[t]
              THEN UNCHANGED <<hasResourcefulServers, mcpProvider>>
              ELSE /\ hasResourcefulServers' = SomeResourceful(servers)
                   /\ mcpProvider' = buildMcpProviderData(servers)
           /\ ret' = [ret EXCEPT ![t] =
                  [NoRet EXCEPT !.op = "initialize", !.desired = f.desired,
                                !.pre = f.arr, !.repeat = f.repeat]]
           /\ hist' = IF f.repeat THEN hist
                      ELSE [valid |-> TRUE, desired |-> f.desired,
                            conns |-> connections, nObj |-> nObj,
                            closes |-> TotalCloses]
    /\ task' = [task EXCEPT ![t] = <<>>]
    /\ exc' = [exc EXCEPT ![t] = FALSE]
    /\ cur' = 0
    /\ UNCHANGED <<connections, conn, nObj, workload, opCount, cbCount>>
    /\ UNCHANGED <<read, act, reg>>

(***************************************************************************)
(* deleteConnection (lines 389-403)                                        *)
(***************************************************************************)
\* lines 390-393: look the connection up and call transport.close()
DeleteStart(t) ==
    /\ At(t, "d_start")
    /\ LET f == Top(t)
           connection == getServerConnection(f.name)
       IN  IF connection = 0
           THEN /\ task' = [task EXCEPT ![t] = Pop(@)]
                /\ UNCHANGED conn
           ELSE /\ conn' = [conn EXCEPT ![connection].tClose = @ + 1]
                /\ task' = [task EXCEPT ![t] =
                       SetTop(@, [f EXCEPT !.pc = "d_tclose", !.obj = connection])]
    /\ cur' = 0
    /\ UNCHANGED <<connections, nObj, hasResourcefulServers, mcpProvider,
                   initializationError, ret, workload, opCount, exc, cbCount, hist>>
    /\ UNCHANGED <<read, act, reg>>

\* the connection set and the call stacks after line 401
DeleteFilter(t, name) ==
    /\ connections' = FilterOut(connections, conn, name)
    /\ task' = Unlive([task EXCEPT ![t] = Pop(@)])

\* transport.close() returned: call client.close() (line 394), or, when it
\* threw, log and remove the connection (lines 395-401)
DeleteTransportClosed(t) ==
    /\ At(t, "d_tclose")
    /\ LET f == Top(t)
       IN  \E ok \in BOOLEAN :
              IF ok
              THEN /\ conn' = [conn EXCEPT ![f.obj].cClose = @ + 1]
                   /\ task' = [task EXCEPT ![t] =
                          SetTop(@, [f EXCEPT !.pc = "d_cclose"])]
                   /\ UNCHANGED connections
              ELSE /\ DeleteFilter(t, f.name)
                   /\ conn' = Unreachable([conn EXCEPT ![f.obj].tCloseThrew = TRUE,
                                                       ![f.obj].released = TRUE],
                                          connections', task')
    /\ cur' = 0
    /\ UNCHANGED <<nObj, hasResourcefulServers, mcpProvider,
                   initializationError, ret, workload, opCount, exc, cbCount, hist>>
    /\ UNCHANGED <<read, act, reg>>

\* client.close() returned or threw: remove the connection (line 401)
DeleteClientClosed(t) ==
    /\ At(t, "d_cclose")
    /\ DeleteFilter(t, Top(t).name)
    /\ conn' = Unreachable([conn EXCEPT ![Top(t).obj].released = TRUE],
                           connections', task')
    /\ cur' = 0
    /\ UNCHANGED <<nObj, hasResourcefulServers, mcpProvider,
                   initializationError, ret, workload, opCount, exc, cbCount, hist>>
    /\ UNCHANGED <<read, act, reg>>

\* deleteConnection called from outside the service
StartDelete(t, name) ==
    /\ MayStart(t)
    /\ opCount' = opCount + 1
    /\ task' = [task EXCEPT ![t] =
           << Frame("caller", "x_deleted", name), Frame("delete", "d_start", name) >>]
    /\ cur' = t
    /\ ret' = [ret EXCEPT ![t] = NoRet]
    /\ hist' = NoHist
    /\ UNCHANGED <<connections, conn, nObj, hasResourcefulServers, mcpProvider,
                   initializationError, workload, exc, cbCount>>
    /\ UNCHANGED <<read, act, reg>>

CallerAfterDelete(t) ==
    /\ At(t, "x_deleted")
    /\ task' = [task EXCEPT ![t] = <<>>]
    /\ ret' = [ret EXCEPT ![t] =
           [NoRet EXCEPT !.op = "delete", !.name = Top(t).name, !.threw = exc[t]]]
    /\ exc' = [exc EXCEPT ![t] = FALSE]
    /\ cur' = 0
    /\ UNCHANGED <<connections, conn, nObj, hasResourcefulServers, mcpProvider,
                   initializationError, workload, opCount, cbCount, hist>>
    /\ UNCHANGED <<read, act, reg>>

(***************************************************************************)
(* connectToServer (lines 230-382)                                         *)
(***************************************************************************)
\* lines 231-238: drop the entries of that name, create the client, build
\* the transport
ConnectStart(t) ==
    /\ At(t, "c_start")
    /\ LET f == Top(t)
       IN  /\ connections' = FilterOut(connections, conn, f.name)
           /\ IF BuildThrows(f.cfg)
              THEN /\ task' = Unlive([task EXCEPT ![t] =
                          SetTop(@, [f EXCEPT !.pc = "c_built", !.built = FALSE])])
                   /\ conn' = Unreachable(conn, connections', task')
                   /\ UNCHANGED nObj
              ELSE /\ nObj < MaxObj
                   /\ nObj' = nObj + 1
                   /\ task' = Unlive([task EXCEPT ![t] =
                          SetTop(@, [f EXCEPT !.pc = "c_built", !.built = TRUE,
                                              !.obj = nObj + 1])])
                   /\ conn' = Unreachable(
                          [conn EXCEPT ![nObj + 1] =
                              [NoConn EXCEPT
                                  !.name = f.name,
                                  !.status = "created",
                                  !.overlap = \E o \in 1..nObj :
                                                 /\ conn[o].name = f.name
                                                 /\ ~conn[o].released]],
                          connections', task')
    /\ cur' = 0
    /\ UNCHANGED <<hasResourcefulServers, mcpProvider, initializationError, ret,
                   workload, opCount, exc, cbCount, hist>>
    /\ UNCHANGED <<read, act, reg>>

\* connectToServer returns to its caller
ConnectReturn(t, raised) ==
    /\ exc' = [exc EXCEPT ![t] = raised]
    /\ cur' = 0

\* lines 240-260: the build threw (catch, finally), or the connection is
\* pushed, the callbacks registered and the handshake started
ConnectBuilt(t) ==
    /\ At(t, "c_built")
    /\ LET f == Top(t)
       IN  IF ~f.built
           THEN /\ conn' = CatchConn(conn, connections, f.name, BuildErrorMsg)
                /\ Finally(connections, conn')
                /\ task' = [task EXCEPT ![t] = Pop(@)]
                /\ ConnectReturn(t, ConnectRaises)
                /\ UNCHANGED connections
           ELSE /\ conn' = [conn EXCEPT ![f.obj].config = JSONstringify(f.cfg),
                                        ![f.obj].status = "connecting",
                                        ![f.obj].cbReg = TRUE,
                                        ![f.obj].hs = "pending"]
                /\ connections' = Append(connections, f.obj)
                /\ task' = PushLive([task EXCEPT ![t] =
                       SetTop(@, [f EXCEPT !.pc = "c_handshake"])], f.obj)
                /\ cur' = 0
                /\ UNCHANGED <<hasResourcefulServers, mcpProvider, exc>>
    /\ UNCHANGED <<nObj, initializationError, ret, workload, opCount, cbCount, hist>>
    /\ UNCHANGED <<read, act, reg>>

\* lines 260-276: client.connect(transport) returned or threw
ConnectHandshake(t) ==
    /\ At(t, "c_handshake")
    /\ LET f == Top(t)
       IN  \E ok \in BOOLEAN :
              IF ok
              THEN /\ conn' = [conn EXCEPT ![f.obj].status = "connected",
                                           ![f.obj].hs = "ok"]
                   /\ task' = [task EXCEPT ![t] =
                          SetTop(@, [f EXCEPT !.pc = "c_tools",
                                              !.issued = FetchIssued("connected")])]
                   /\ cur' = 0
                   /\ UNCHANGED <<hasResourcefulServers, mcpProvider, exc>>
              ELSE /\ task' = [task EXCEPT ![t] = Pop(@)]
                   /\ conn' = Unreachable(
                          CatchConn([conn EXCEPT ![f.obj].hs = "failed"],
                                    connections, f.name, HandshakeErrorMsg),
                          connections, task')
                   /\ Finally(connections, conn')
                   /\ ConnectReturn(t, ConnectRaises)
    /\ UNCHANGED <<connections, nObj, initializationError, ret, workload, opCount, cbCount,
                   hist>>
    /\ UNCHANGED <<read, act, reg>>

\* the catch and finally blocks after an exception past the handshake
ConnectFails(t, c, msg) ==
    /\ task' = [task EXCEPT ![t] = Pop(@)]
    /\ conn' = Unreachable(CatchConn(c, connections, Top(t).name, msg),
                           connections, task')
    /\ Finally(connections, conn')
    /\ ConnectReturn(t, ConnectRaises)

\* line 276 resumed: the tools; line 277: fetchResourcesList called
ConnectTools(t) ==
    /\ At(t, "c_tools")
    /\ LET f == Top(t)
       IN  \E resp \in (IF f.issued THEN workload.tools ELSE {Ok(<<>>)}) :
              LET out == fetchToolsList(resp)
                  c == conn
              IN  IF out.threw
                  THEN ConnectFails(t, c, <<resp.err>>)
                  ELSE /\ conn' = c
                       /\ task' = [task EXCEPT ![t] =
                              SetTop(@, [f EXCEPT
                                  !.pc = "c_res", !.tools = out.list,
                                  !.issued = FetchIssued(conn[f.obj].status)])]
                       /\ cur' = 0
                       /\ UNCHANGED <<hasResourcefulServers, mcpProvider, exc>>
    /\ UNCHANGED <<connections, nObj, initializationError, ret, workload, opCount, cbCount,
                   hist>>
    /\ UNCHANGED <<read, act, reg>>

\* line 277 resumed: the resources; line 278: fetchResourceTemplatesList called
ConnectResources(t) ==
    /\ At(t, "c_res")
    /\ LET f == Top(t)
       IN  \E resp \in (IF f.issued THEN workload.resources ELSE {Ok(<<>>)}) :
              LET out == fetchResourcesList(resp)
                  c == conn
              IN  IF out.threw
                  THEN ConnectFails(t, c, <<resp.err>>)
                  ELSE /\ conn' = c
                       /\ task' = [task EXCEPT ![t] =
                              SetTop(@, [f EXCEPT
                                  !.pc = "c_tmpl", !.res = out.list,
                                  !.issued = FetchIssued(conn[f.obj].status)])]
                       /\ cur' = 0
                       /\ UNCHANGED <<hasResourcefulServers, mcpProvider, exc>>
    /\ UNCHANGED <<connections, nObj, initializationError, ret, workload, opCount, cbCount,
                   hist>>
    /\ UNCHANGED <<read, act, reg>>

\* the server record written at lines 359-367
FinalServer(old, name, cfg, tools, resources, templates) ==
    [old EXCEPT
        !.status = "connected",
        !.name = name,
        !.config = JSONstringify(cfg),
        !.error = <<>>,
        !.tools = tools,
        !.resources = SynthesizeResources(name, IsN8nServer(cfg), tools, resources),
        !.resourceTemplates =
            SynthesizeTemplates(name, IsN8nServer(cfg), tools, resources, templates),
        !.finalized = TRUE,
        !.actual = resources]

\* line 278 resumed: the templates; lines 280-381: synthesis, the server
\* record, the finally block
ConnectTemplates(t) ==
    /\ At(t, "c_tmpl")
    /\ LET f == Top(t)
       IN  \E resp \in (IF f.issued THEN workload.templates ELSE {Ok(<<>>)}) :
              LET out == fetchResourceTemplatesList(resp)
                  c == conn
              IN  IF out.threw
                  THEN ConnectFails(t, c, <<resp.err>>)
                  ELSE /\ task' = [task EXCEPT ![t] = Pop(@)]
                       /\ conn' = Unreachable(
                              [c EXCEPT ![f.obj] =
                                  FinalServer(@, f.name, f.cfg, f.tools, f.res,
                                              out.list)],
                              connections, task')
                       /\ Finally(connections, conn')
                       /\ ConnectReturn(t, FALSE)
    /\ UNCHANGED <<connections, nObj, initializationError, ret, workload, opCount, cbCount,
                   hist>>
    /\ UNCHANGED <<read, act, reg>>

(***************************************************************************)
(* restartConnection (lines 713-734)                                       *)
(***************************************************************************)
\* a restartConnection that rejects an unknown name
RestartUnknownRejected == TRUE

\* lines 715-716 and 733: with no connection of that name (config is
\* undefined) the body is skipped; does the call end with an error
RestartUnknownThrows == FALSE

StartRestart(t, serverName) ==
    /\ MayStart(t)
    /\ opCount' = opCount + 1
    /\ LET connection == FindByName(serverName)
       IN  IF connection # 0 /\ conn[connection].config # <<>>
           THEN /\ conn' = [conn EXCEPT ![connection].status = "connecting",
                                        ![connection].error = <<>>,
                                        ![connection].restarting = TRUE]
                /\ task' = [task EXCEPT ![t] =
                       << [Frame("restart", "r_deleted", serverName) EXCEPT
                              !.cfg = conn[connection].config,
                              !.arr = connections],
                          Frame("delete", "d_start", serverName) >>]
                /\ cur' = t
                /\ ret' = [ret EXCEPT ![t] = NoRet]
           ELSE /\ ret' = [ret EXCEPT ![t] =
                       [NoRet EXCEPT !.op = "restart", !.name = serverName,
                                     !.found = FALSE, !.pre = connections,
                                     !.threw = RestartUnknownThrows]]
                /\ UNCHANGED <<conn, task, cur>>
    /\ hist' = NoHist
    /\ UNCHANGED <<connections, nObj, hasResourcefulServers, mcpProvider,
                   initializationError, workload, exc, cbCount>>
    /\ UNCHANGED <<read, act, reg>>

\* restartConnection ends: normally, or with the error of line 731
RestartReturn(t, threw) ==
    /\ task' = [task EXCEPT ![t] = <<>>]
    /\ ret' = [ret EXCEPT ![t] =
           [NoRet EXCEPT !.op = "restart", !.name = task[t][1].name,
                         !.found = TRUE, !.threw = threw, !.pre = task[t][1].arr,
                         !.desired = task[t][1].cfg]]
    /\ exc' = [exc EXCEPT ![t] = FALSE]
    /\ cur' = 0

\* line 724: after the awaited deleteConnection
RestartAfterDelete(t) ==
    /\ At(t, "r_deleted")
    /\ LET f == Top(t)
       IN  IF exc[t]
           THEN RestartReturn(t, TRUE)
           ELSE /\ task' = [task EXCEPT ![t] =
                       Push(SetTop(@, [f EXCEPT !.pc = "r_connected"]),
                            [Frame("connect", "c_start", f.name) EXCEPT
                                !.cfg = JSONparse(f.cfg)])]
                /\ cur' = t
                /\ UNCHANGED <<ret, exc>>
    /\ UNCHANGED <<connections, conn, nObj, hasResourcefulServers, mcpProvider,
                   initializationError, workload, opCount, cbCount, hist>>
    /\ UNCHANGED <<read, act, reg>>

\* line 725: after the awaited connectToServer
RestartAfterConnect(t) ==
    /\ At(t, "r_connected")
    /\ RestartReturn(t, exc[t])
    /\ UNCHANGED <<connections, conn, nObj, hasResourcefulServers, mcpProvider,
                   initializationError, workload, opCount, cbCount, hist>>
    /\ UNCHANGED <<read, act, reg>>

(***************************************************************************)
(* stop (lines 89-101)                                                     *)
(***************************************************************************)
\* the handlers in flight when a stop() completes are marked (stopped is
\* read by no handler)
Stopped(tk) ==
    [s \in DOMAIN tk |->
        [i \in 1..Len(tk[s]) |-> [tk[s][i] EXCEPT !.stopped = TRUE]]]

\* line 100 and the return of stop()
StopReturn(t) ==
    /\ connections' = <<>>
    /\ task' = Stopped(Unlive([task EXCEPT ![t] = <<>>]))
    /\ conn' = Unreachable(conn, connections', task')
    /\ ret' = [ret EXCEPT ![t] =
           [NoRet EXCEPT !.op = "stop",
                         !.pre = IF Idle(t) THEN <<>> ELSE task[t][1].arr]]
    /\ cur' = 0

StartStop(t) ==
    /\ MayStart(t)
    /\ opCount' = opCount + 1
    /\ IF connections = <<>>
       THEN StopReturn(t)
       ELSE /\ task' = [task EXCEPT ![t] =
                   << [Frame("stop", "s_deleted", "") EXCEPT
                          !.arr = connections, !.idx = 1, !.live = TRUE,
                          !.todo = connections],
                      Frame("delete", "d_start", conn[connections[1]].name) >>]
            /\ cur' = t
            /\ ret' = [ret EXCEPT ![t] = NoRet]
            /\ UNCHANGED <<connections, conn>>
    /\ hist' = NoHist
    /\ UNCHANGED <<nObj, hasResourcefulServers, mcpProvider,
                   initializationError, workload, exc, cbCount>>
    /\ UNCHANGED <<read, act, reg>>

\* the next element of the iterated array, or line 100 when it is exhausted
StopAfterDelete(t) ==
    /\ At(t, "s_deleted")
    /\ LET f == Top(t)
       IN  IF f.idx + 1 <= Len(f.arr)
           THEN /\ task' = [task EXCEPT ![t] =
                       Push(SetTop(@, [f EXCEPT !.idx = f.idx + 1]),
                            Frame("delete", "d_start", conn[f.arr[f.idx + 1]].name))]
                /\ cur' = t
                /\ UNCHANGED <<connections, conn, ret>>
           ELSE StopReturn(t)
    /\ exc' = [exc EXCEPT ![t] = FALSE]
    /\ UNCHANGED <<nObj, hasResourcefulServers, mcpProvider,
                   initializationError, workload, opCount, cbCount, hist>>
    /\ UNCHANGED <<read, act, reg>>

(***************************************************************************)
(* The transport callbacks registered at lines 247-258.  They run between  *)
(* handlers, on the connection object they were registered for.            *)
(***************************************************************************)
updateResourceAvailability(c) ==
    hasResourcefulServers' =
        SomeResourceful(getServers(connections, c, initializationError))

\* a callback that looks its connection up by name when it runs
CallbackConnectionByName(o) ==
    IF FindByName(conn[o].name) # 0 THEN FindByName(conn[o].name) ELSE o

\* the connection a callback of object o writes to: the variable connection
\* of the connectToServer call that registered it
CallbackConnection(o) == o

\* the callback ran on a connection that was deleted before
Late(o) == conn[o].cbLate \/ conn[o].status = "unreachable"

TransportOnError(o) ==
    /\ cur = 0
    /\ o \in 1..nObj
    /\ conn[o].cbReg
    /\ cbCount < MaxCb
    /\ conn' = Unreachable(
           [conn EXCEPT
               ![CallbackConnection(o)].status = "disconnected",
               ![CallbackConnection(o)].error =
                   appendErrorMessage(conn[CallbackConnection(o)].error,
                                      TransportErrorMsg),
               ![CallbackConnection(o)].cbFired = TRUE,
               ![o].cbLate = Late(o)],
           connections, task)
    /\ updateResourceAvailability(conn')
    /\ cbCount' = cbCount + 1
    /\ UNCHANGED <<connections, nObj, mcpProvider, initializationError, task,
                   ret, cur, workload, opCount, exc, hist>>
    /\ UNCHANGED <<read, act, reg>>

TransportOnClose(o) ==
    /\ cur = 0
    /\ o \in 1..nObj
    /\ conn[o].cbReg
    /\ cbCount < MaxCb
    /\ conn' = Unreachable([conn EXCEPT
                                ![CallbackConnection(o)].status = "disconnected",
                                ![CallbackConnection(o)].cbFired = TRUE,
                                ![o].cbLate = Late(o)],
                           connections, task)
    /\ updateResourceAvailability(conn')
    /\ cbCount' = cbCount + 1
    /\ UNCHANGED <<connections, nObj, mcpProvider, initializationError, task,
                   ret, cur, workload, opCount, exc, hist>>
    /\ UNCHANGED <<read, act, reg>>

(***************************************************************************)
(* readResource (lines 551-711).                                           *)
(***************************************************************************)
\* property read connection.server.disabled: the server records written at
\* lines 240-244 and 359-367 hold no such property
Disabled(server) == "disabled" \in DOMAIN server /\ server.disabled

WeatherPrefix == <<"mcp:", "", "n8n", "synthetic", "weather">>

\* a prefix test without the trailing "/"
StartsWithWeatherNoSlash(uri) ==
    Len(uri) >= Len(WeatherPrefix) /\ SubSeq(uri, 1, Len(WeatherPrefix)) = WeatherPrefix

\* uri.startsWith("mcp://n8n/synthetic/weather/")
StartsWithWeather(uri) ==
    Len(uri) > Len(WeatherPrefix) /\ SubSeq(uri, 1, Len(WeatherPrefix)) = WeatherPrefix

\* uri.replace("mcp://n8n/synthetic/weather/", "")
Location(uri) == SubSeq(uri, Len(WeatherPrefix) + 1, Len(uri))

\* decodeURIComponent throws a URIError on a malformed escape
DecodeThrows(location) == \E i \in 1..Len(location) : location[i] = "%"

decodeURIComponent(location) ==
    [i \in 1..Len(location) |->
        IF location[i] = "new%20york" THEN "new york" ELSE location[i]]

\* uri.match(/^mcp:\/\/([^\/]+)\/synthetic\/tool\/(.+)$/)
ToolResourceMatch(uri) ==
    /\ Len(uri) >= 6
    /\ uri[1] = "mcp:" /\ uri[2] = "" /\ uri[3] # ""
    /\ uri[4] = "synthetic" /\ uri[5] = "tool"
    /\ Len(uri) > 6 \/ uri[6] # ""

\* the two groups of the match
MatchServer(uri) == uri[3]
MatchToolName(uri) == SubSeq(uri, 6, Len(uri))

\* tools.find(t => t.name === toolName): its index, 0 when there is none
FindTool(tools, toolName) ==
    LET found == {i \in 1..Len(tools) : <<tools[i].name>> = toolName}
    IN  IF found = {} THEN 0 ELSE CHOOSE i \in found : \A j \in found : i <= j

\* a calculator branch answering with a JSON body
CalculatorErrorAsJson(uri) ==
    Response(uri, "application/json",
             <<"Error: The calculator resource represents a tool", uri>>)

\* lines 567-576
CalculatorError(uri) ==
    Response(uri, "application/mcp-error",
             <<"Error: The calculator resource represents a tool", uri>>)

\* lines 615-643 (the two forecast entries, dated from the clock, left out)
Placeholder(uri) ==
    Response(uri, "application/json",
             JSONstringify(<< <<"location", decodeURIComponent(Location(uri))>>,
                              <<"temperature", <<"22">>>>,
                              <<"condition", <<"Sunny">>>>,
                              <<"humidity", <<"65">>>>,
                              <<"windSpeed", <<"10">>>> >>))

\* a weather branch that lets the error escape
WeatherErrorThrown(uri, msg) == Thrown(msg)

\* lines 645-654
WeatherError(uri, msg) ==
    Response(uri, "application/mcp-error", <<"Error fetching weather data: ", msg>>)

\* lines 676-692
ToolInfo(uri, serverName, tool) ==
    Response(uri, "application/json",
             JSONstringify(<< <<"name", <<tool.name>>>>,
                              <<"description",
                                <<IF tool.description # "" THEN tool.description
                                  ELSE "The tool">>>>,
                              <<"usage", <<serverName, tool.name>>>> >>))

\* a generic branch that lets the error escape
ToolErrorThrown(uri, msg) == Thrown(msg)

\* lines 694-703
ToolError(uri, msg) ==
    Response(uri, "application/mcp-error", <<"Error accessing tool resource: ", msg>>)

\* what client.callTool may deliver for the weather tool
WeatherItem == << <<"type", <<"text">>>>, <<"text", <<"rain">>>> >>
WeatherResults == {Ok(<<WeatherItem>>), Ok(<<>>), Failure("timeout")}

\* what client.readResource may deliver
NativeContents ==
    <<[uri |-> RealResource.uri, mimeType |-> "text/plain", text |-> <<"data">>]>>
NativeResults == {Ok(NativeContents), Failure("Resource not found")}

\* the remote calls a readResource call may issue
CallWeather(location) == [call |-> "callTool", name |-> "weather", arg |-> location]
CallRead(uri) == [call |-> "readResource", name |-> "", arg |-> uri]

\* the reads asked for
ReadServers == Names
ReadUris ==
    {CalculatorUri, WeatherUri, WeatherPrefix, RealResource.uri,
     WeatherPrefix \o <<"london">>, WeatherPrefix \o <<"new%20york">>,
     WeatherPrefix \o <<"%">>,
     ToolUri("a", "echo"), ToolUri("a", "calculator"), ToolUri("a", "weather"),
     ToolUri("a", "ghost"), ToolUri("a", ""), ToolUri("b", "echo"),
     ToolUri("n8n", "echo")}

ReadEnds(got, out) == [read EXCEPT !.pc = "done", !.got = got, !.out = out]

\* lines 551-711 up to the first await
ReadStart(serverName, uri) ==
    /\ cur = 0
    /\ read.pc \in {"idle", "done"}
    /\ read.n < MaxReads
    /\ LET connection == FindByName(serverName)
           tools == IF connection = 0 THEN <<>> ELSE conn[connection].tools
           r == [NoRead EXCEPT !.server = serverName, !.uri = uri,
                               !.obj = connection, !.tools = tools,
                               !.n = read.n + 1]
       IN  read' =
             IF connection = 0
             THEN [r EXCEPT !.pc = "done", !.out = Thrown("No connection found")]
             ELSE IF Disabled(conn[connection])
             THEN [r EXCEPT !.pc = "done", !.out = Thrown("Server is disabled")]
             ELSE IF uri = CalculatorUri
             THEN [r EXCEPT !.pc = "done", !.out = CalculatorError(uri)]
             ELSE IF StartsWithWeather(uri)
             THEN IF FindTool(tools, <<"weather">>) # 0
                  THEN [r EXCEPT !.pc = "r_weather",
                                 !.calls = <<CallWeather(Location(uri))>>]
                  ELSE IF DecodeThrows(Location(uri))
                  THEN [r EXCEPT !.pc = "done",
                                 !.out = WeatherError(uri, "URI malformed")]
                  ELSE [r EXCEPT !.pc = "done", !.out = Placeholder(uri)]
             ELSE IF ToolResourceMatch(uri) /\ MatchServer(uri) = serverName
             THEN LET k == FindTool(tools, MatchToolName(uri))
                  IN  IF k = 0
                      THEN [r EXCEPT !.pc = "done",
                                     !.out = ToolError(uri, "Tool not found on server")]
                      ELSE [r EXCEPT !.pc = "done",
                                     !.out = ToolInfo(uri, serverName, tools[k])]
             ELSE [r EXCEPT !.pc = "r_native", !.calls = <<CallRead(uri)>>]
    /\ UNCHANGED <<connections, conn, nObj, hasResourcefulServers, mcpProvider,
                   initializationError, task, ret, cur, workload, exc, cbCount,
                   opCount, hist, act, reg>>

\* lines 594-654 resumed: client.callTool returned or threw
ReadWeatherReturned ==
    /\ cur = 0
    /\ read.pc = "r_weather"
    /\ \E result \in WeatherResults :
          read' = ReadEnds(result,
              IF IsError(result) THEN WeatherError(read.uri, result.err)
              ELSE IF Len(result.list) > 0
              THEN Response(read.uri, "application/json",
                            JSONstringify(result.list[1]))
              ELSE IF DecodeThrows(Location(read.uri))
              THEN WeatherError(read.uri, "URI malformed")
              ELSE Placeholder(read.uri))
    /\ UNCHANGED <<connections, conn, nObj, hasResourcefulServers, mcpProvider,
                   initializationError, task, ret, cur, workload, exc, cbCount,
                   opCount, hist, act, reg>>

\* line 710 resumed: client.readResource returned or threw
ReadNativeReturned ==
    /\ cur = 0
    /\ read.pc = "r_native"
    /\ \E result \in NativeResults :
          read' = ReadEnds(result,
              IF IsError(result) THEN Thrown(result.err)
              ELSE [kind |-> "return", contents |-> result.list, error |-> ""])
    /\ UNCHANGED <<connections, conn, nObj, hasResourcefulServers, mcpProvider,
                   initializationError, task, ret, cur, workload, exc, cbCount,
                   opCount, hist, act, reg>>

(***************************************************************************)
(* Selections (src/src/utils/validation.ts).  A candidate selection is an  *)
(* object, or a text given as the list of its parts: a code fence marker,  *)
(* prose, or the text of a JSON object.                                    *)
(***************************************************************************)
\* a property an object does not carry
Absent == "absent"

SelectionFields ==
    {"serverName", "toolName", "arguments", "uri", "noToolAvailable",
     "noResourceAvailable"}

\* the object without properties
NoObject == [f \in SelectionFields |-> Absent]

Fence == [t |-> "fence", o |-> NoObject]
Prose == [t |-> "prose", o |-> NoObject]
ObjectText(o) == [t |-> "object", o |-> o]

\* a candidate handed to a validator: a native object or a string
NativeObject(o) == [kind |-> "object", toks |-> <<>>, o |-> o]
String(toks) == [kind |-> "string", toks |-> toks, o |-> NoObject]

\* JSON.parse of a text: an object, or an exception
JSONparseText(toks) ==
    IF Len(toks) = 1 /\ toks[1].t = "object"
    THEN [threw |-> FALSE, o |-> toks[1].o]
    ELSE [threw |-> TRUE, o |-> NoObject]

\* a fence marker directly followed by the opening brace of an object
Opens(toks) ==
    {i \in 1..(Len(toks) - 1) : toks[i].t = "fence" /\ toks[i + 1].t = "object"}

\* a closing brace directly followed by a fence marker, after position i
Closes(toks, i) ==
    {j \in (i + 1)..(Len(toks) - 1) : toks[j].t = "object" /\ toks[j + 1].t = "fence"}

\* a match that takes the last fenced object of the text
LastFencedBlock(toks) ==
    LET matches == {i \in Opens(toks) : Closes(toks, i) # {}}
    IN  IF matches = {} THEN toks
        ELSE LET i == CHOOSE k \in matches : \A l \in matches : k >= l
             IN  <<toks[i + 1]>>

\* data.match(/```(?:json)?\s*(\{[\s\S]*?\})\s*```/) (lines 42-43): the
\* leftmost fence marker followed by an opening brace, and from that brace
\* the shortest text that ends with a closing brace followed by a fence
\* marker; the whole text when there is no match
FirstFencedBlock(toks) ==
    LET matches == {i \in Opens(toks) : Closes(toks, i) # {}}
    IN  IF matches = {} THEN toks
        ELSE LET i == CHOOSE k \in matches : \A l \in matches : k <= l
                 j == CHOOSE k \in Closes(toks, i) : \A l \in Closes(toks, i) : k <= l
             IN  SubSeq(toks, i + 1, j)

\* data.replace(/```json|```/g, "").trim() (line 75)
StripFences(toks) == SelectSeq(toks, LAMBDA x : x.t # "fence")

\* ToolSelectionSchema: the violations of an object, in the order of the
\* required properties
ToolSelectionSchema(o) ==
    IF o.noToolAvailable = "true" THEN <<>>
    ELSE SelectSeq(<<"serverName", "toolName", "arguments">>,
                   LAMBDA f : o[f] = Absent)

\* ResourceSelectionSchema
ResourceSelectionSchema(o) ==
    IF o.noResourceAvailable = "true" THEN <<>>
    ELSE SelectSeq(<<"serverName", "uri">>, LAMBDA f : o[f] = Absent)

\* what a validator returns
Success(o) == [success |-> TRUE, data |-> o, error |-> <<>>]
Rejected(kind, errors) ==
    [success |-> FALSE, data |-> NoObject, error |-> <<kind>> \o errors]

\* an ajv compiled without allErrors: the first violation only
validateToolSelectionFirstError(data) ==
    LET parsed == IF data.kind = "string"
                  THEN JSONparseText(FirstFencedBlock(data.toks))
                  ELSE [threw |-> FALSE, o |-> data.o]
        errors == ToolSelectionSchema(parsed.o)
    IN  IF parsed.threw THEN Rejected("parse", <<>>)
        ELSE IF errors # <<>> THEN Rejected("schema", <<errors[1]>>)
        ELSE Success(parsed.o)

\* validateToolSelection (lines 33-66)
validateToolSelection(data) ==
    LET parsed == IF data.kind = "string"
                  THEN JSONparseText(FirstFencedBlock(data.toks))
                  ELSE [threw |-> FALSE, o |-> data.o]
        errors == ToolSelectionSchema(parsed.o)
    IN  IF parsed.threw THEN Rejected("parse", <<>>)
        ELSE IF errors # <<>> THEN Rejected("schema", errors)
        ELSE Success(parsed.o)

\* validateResourceSelection (lines 68-98)
validateResourceSelection(data) ==
    LET parsed == IF data.kind = "string"
                  THEN JSONparseText(StripFences(data.toks))
                  ELSE [threw |-> FALSE, o |-> data.o]
        errors == ResourceSelectionSchema(parsed.o)
    IN  IF parsed.threw THEN Rejected("parse", <<>>)
        ELSE IF errors # <<>> THEN Rejected("schema", errors)
        ELSE Success(parsed.o)

(***************************************************************************)
(* registerMcpService (index.ts, lines 7-63)                               *)
(***************************************************************************)
\* service objects: null, the one the host registered itself, and the n-th
\* one made by registerMcpService
NoInstance == [by |-> "none", n |-> 0]
ExistingService == [by |-> "host", n |-> 0]
NewService(n) == [by |-> "registerMcpService", n |-> n]

\* a call of registerMcpService: service is its local of line 29, result what
\* it returned, early whether the returned object's initialize() was still
\* in flight then
NoCall ==
    [pc |-> "idle", service |-> NoInstance, result |-> NoInstance,
     early |-> FALSE]

\* made[n] is the slot whose call made NewService(n) and runs its
\* initialize(); registeredEarly tells whether registerService was handed an
\* object whose initialize() was in flight
NoReg ==
    [globalServiceInstance |-> NoInstance, registry |-> NoInstance,
     created |-> 0, made |-> <<>>, n |-> 0, registeredEarly |-> FALSE,
     call |-> [k \in Slots |-> NoCall]]

\* the initialize() of service s has completed
Initialized(s) ==
    \/ s.by = "host"
    \/ /\ s.by = "registerMcpService"
       /\ Idle(reg.made[s.n])

Returned(s) ==
    [pc |-> "returned", service |-> NoInstance, result |-> s,
     early |-> ~Initialized(s)]

\* McpService.start (service.ts, lines 83-87) called by the host, which then
\* registered the service, before registerMcpService was ever called
HostRegisters ==
    /\ cur = 0
    /\ reg.n = 0
    /\ reg.registry = NoInstance
    /\ reg' = [reg EXCEPT !.registry = ExistingService]
    /\ UNCHANGED serviceVars
    /\ UNCHANGED <<read, act>>

\* lines 11-35: return the global instance, or adopt the registered service,
\* or make a service, store it in the global and await its initialize()
RegisterCall(k, desired) ==
    /\ k \in workload.slots
    /\ Idle(k)
    /\ cur = 0
    /\ reg.call[k].pc # "initializing"
    /\ reg.n < MaxRegs
    /\ IF reg.globalServiceInstance # NoInstance
       THEN /\ reg' = [reg EXCEPT !.n = @ + 1,
                                  !.call[k] = Returned(reg.globalServiceInstance)]
            /\ UNCHANGED serviceVars
       ELSE IF reg.registry # NoInstance
       THEN /\ reg' = [reg EXCEPT !.n = @ + 1,
                                  !.globalServiceInstance = reg.registry,
                                  !.call[k] = Returned(reg.registry)]
            /\ UNCHANGED serviceVars
       ELSE /\ InitializeCalled(k, desired)
            /\ reg' = [reg EXCEPT
                  !.n = @ + 1,
                  !.created = @ + 1,
                  !.made = Append(@, k),
                  !.globalServiceInstance = NewService(reg.created + 1),
                  !.call[k] = [NoCall EXCEPT
                                  !.pc = "initializing",
                                  !.service = NewService(reg.created + 1)]]
    /\ UNCHANGED <<read, act>>

\* lines 37-62 after the awaited initialize(): registerService, which may
\* throw, and the return
RegisterAfterInitialize(k) ==
    /\ cur = 0
    /\ reg.call[k].pc = "initializing"
    /\ Idle(k)
    /\ LET service == reg.call[k].service
       IN  \E threw \in BOOLEAN :
              IF ~threw
              THEN reg' = [reg EXCEPT
                      !.registry = service,
                      !.registeredEarly = @ \/ ~Initialized(service),
                      !.call[k] = Returned(service)]
              ELSE IF reg.registry # NoInstance
              THEN reg' = [reg EXCEPT
                      !.globalServiceInstance = reg.registry,
                      !.call[k] = Returned(reg.registry)]
              ELSE reg' = [reg EXCEPT !.call[k] = Returned(service)]
    /\ UNCHANGED serviceVars
    /\ UNCHANGED <<read, act>>

(***************************************************************************)
(* The action handlers READ_MCP_RESOURCE (readResourceAction.ts) and       *)
(* CALL_MCP_TOOL (callToolAction), the selection loop withModelRetry they  *)
(* call, and McpService.callTool (service.ts, lines 497-549).              *)
(***************************************************************************)
\* the result of withModelRetry: a selection, or null
Selected(o) == [null |-> FALSE, o |-> o]
Null == [null |-> TRUE, o |-> NoObject]

\* no handler ran: cb tells whether the host passed a callback, max is the
\* configured maximum of attempts, errs the kinds of the failed attempts,
\* input the candidate to validate, calls the calls made on the service or
\* on a client, said what was sent through the callback; original, err, user
\* and text are the arguments of a feedback prompt and prompt is its result
NoAct ==
    [pc |-> "idle", handler |-> "none", cb |-> FALSE, max |-> 0, attempts |-> 0,
     errs |-> <<>>, input |-> NativeObject(NoObject), res |-> Success(NoObject),
     sel |-> Null, calls |-> <<>>, said |-> <<>>, out |-> "none", err |-> "",
     original |-> "", user |-> <<>>, text |-> <<>>, prompt |-> <<>>, n |-> 0]

\* await callback(...) when the host passed one
Say(a, what) == IF a.cb THEN Append(a.said, what) ELSE a.said

\* the selections and the texts a model may answer with
ValidTool ==
    [NoObject EXCEPT !.serverName = "a", !.toolName = "echo", !.arguments = "{}"]
ValidResource == [NoObject EXCEPT !.serverName = "a", !.uri = "file:///data"]
OnlyServer == [NoObject EXCEPT !.serverName = "n8n"]
EscapeTool == [NoObject EXCEPT !.noToolAvailable = "true"]
EscapeResource == [NoObject EXCEPT !.noResourceAvailable = "true"]
AnsweredObjects == {ValidTool, ValidResource, OnlyServer, EscapeTool, EscapeResource}

Candidates ==
    {String(<<Prose>>)}
    \cup {NativeObject(o) : o \in AnsweredObjects}
    \cup {String(<<Fence, ObjectText(o), Fence>>) : o \in AnsweredObjects}
    \cup {String(<<Prose, Fence, ObjectText(o), Fence>>) : o \in AnsweredObjects}

\* the constant of callToolAction, line 134
ToolSelectionPlaceholder == String(<<Prose>>)

\* the validator each handler hands to withModelRetry
Validate(handler, data) ==
    IF handler = "tool" THEN validateToolSelection(data)
    ELSE validateResourceSelection(data)

\* a loop that allows one attempt more than the maximum
RetryExhaustedLate(attempts, max) == attempts > max

\* withModelRetry: the budget is used up
RetryExhausted(attempts, max) == attempts >= max

\* a handler that goes on with a selection carrying the escape property
NoSelectionNullOnly(handler, sel) == sel.null

\* !parsedSelection || parsedSelection.noResourceAvailable
\* (readResourceAction.ts line 215; noToolAvailable in callToolAction, line 149)
NoSelection(handler, sel) ==
    \/ sel.null
    \/ IF handler = "tool" THEN sel.o.noToolAvailable \notin {Absent, "false"}
       ELSE sel.o.noResourceAvailable \notin {Absent, "false"}

ServiceRead(serverName, uri) ==
    [call |-> "readResource", server |-> serverName, name |-> uri,
     arguments |-> Absent, timeout |-> 0]
ClientCallTool(serverName, toolName, arguments, timeout) ==
    [call |-> "callTool", server |-> serverName, name |-> toolName,
     arguments |-> arguments, timeout |-> timeout]

MayAct ==
    /\ cur = 0
    /\ act.pc \in {"idle", "done"}
    /\ act.n < MaxActs

\* the handler up to its call of withModelRetry: readResourceAction.ts lines
\* 168-202, callToolAction lines 112-136
HandlerStart(handler, cb, available, max, first) ==
    /\ MayAct
    /\ LET a == [NoAct EXCEPT !.handler = handler, !.cb = cb, !.max = max,
                              !.n = act.n + 1]
       IN  act' =
             IF ~available
             THEN [a EXCEPT !.pc = "done", !.out = "false",
                            !.said = IF handler = "resource"
                                     THEN Say(a, "unavailable") ELSE a.said]
             ELSE IF handler = "resource"
             THEN [a EXCEPT !.pc = "h_retry", !.said = Say(a, "initial"),
                            !.input = first]
             ELSE [a EXCEPT !.pc = "h_retry", !.input = ToolSelectionPlaceholder]
    /\ UNCHANGED <<connections, conn, nObj, hasResourcefulServers, mcpProvider,
                   initializationError, task, ret, cur, workload, exc, cbCount,
                   opCount, hist, read, reg>>

\* withModelRetry, one attempt: parse and validate the candidate; accept it,
\* or count the failure and ask the model again with the feedback prompt,
\* or give up with the failure message and null
RetryAttempt ==
    /\ cur = 0
    /\ act.pc = "h_retry"
    /\ LET res == Validate(act.handler, act.input)
           failed == [act EXCEPT !.res = res, !.attempts = @ + 1,
                                 !.errs = Append(@, res.error[1])]
       IN  IF res.success
           THEN act' = [act EXCEPT !.res = res, !.sel = Selected(res.data),
                                   !.pc = "h_selected"]
           ELSE IF RetryExhausted(failed.attempts, act.max)
           THEN act' = [failed EXCEPT !.sel = Null, !.pc = "h_selected",
                                      !.said = Say(act, "failure")]
           ELSE \E next \in Candidates : act' = [failed EXCEPT !.input = next]
    /\ UNCHANGED <<connections, conn, nObj, hasResourcefulServers, mcpProvider,
                   initializationError, task, ret, cur, workload, exc, cbCount,
                   opCount, hist, read, reg>>

\* the handler after withModelRetry: readResourceAction.ts lines 215-232,
\* callToolAction lines 149-198
HandlerSelected ==
    /\ cur = 0
    /\ act.pc = "h_selected"
    /\ act' =
         IF NoSelection(act.handler, act.sel)
         THEN [act EXCEPT !.pc = "done", !.out = "true",
                          !.said = IF act.sel.null THEN act.said
                                   ELSE Say(act, "fallback")]
         ELSE IF act.handler = "resource"
         THEN [act EXCEPT !.pc = "h_read",
                          !.calls = Append(@, ServiceRead(act.sel.o.serverName,
                                                          act.sel.o.uri))]
         ELSE [act EXCEPT !.pc = "done", !.out = "true",
                          !.said = Say(act, "response")]
    /\ UNCHANGED <<connections, conn, nObj, hasResourcefulServers, mcpProvider,
                   initializationError, task, ret, cur, workload, exc, cbCount,
                   opCount, hist, read, reg>>

\* handleMcpError: what the handler returns after an error
HandledError == {"true", "false"}

\* readResourceAction.ts lines 232-257: mcpService.readResource returned or
\* threw
HandlerReadReturned ==
    /\ cur = 0
    /\ act.pc = "h_read"
    /\ \/ act' = [act EXCEPT !.pc = "done", !.out = "true",
                             !.said = Say(act, "analysis")]
       \/ \E b \in HandledError :
              act' = [act EXCEPT !.pc = "done", !.out = b,
                                 !.err = "read failed",
                                 !.said = Say(act, "error")]
    /\ UNCHANGED <<connections, conn, nObj, hasResourcefulServers, mcpProvider,
                   initializationError, task, ret, cur, workload, exc, cbCount,
                   opCount, hist, read, reg>>

\* validateToolSelection called on an object
ValidateCall(o) ==
    /\ MayAct
    /\ act' = [NoAct EXCEPT !.pc = "done", !.handler = "validate",
                            !.input = NativeObject(o),
                            !.res = validateToolSelection(NativeObject(o)),
                            !.n = act.n + 1]
    /\ UNCHANGED <<connections, conn, nObj, hasResourcefulServers, mcpProvider,
                   initializationError, task, ret, cur, workload, exc, cbCount,
                   opCount, hist, read, reg>>

\* a function of validation.ts is called on its own: once in a behaviour
MayCall == cur = 0 /\ act.pc = "idle"

\* validateToolSelection or validateResourceSelection called on a text or on
\* an object: it returns a value
ValidateText(validator, data) ==
    /\ MayCall
    /\ act' = [NoAct EXCEPT !.pc = "done", !.handler = validator,
                            !.input = data,
                            !.res = IF validator = "validateToolSelection"
                                    THEN validateToolSelection(data)
                                    ELSE validateResourceSelection(data),
                            !.out = "returned",
                            !.n = act.n + 1]
    /\ UNCHANGED <<connections, conn, nObj, hasResourcefulServers, mcpProvider,
                   initializationError, task, ret, cur, workload, exc, cbCount,
                   opCount, hist, read, reg>>

(***************************************************************************)
(* The feedback prompts (validation.ts, lines 101-187).  A text is the     *)
(* list of its words; a template is the list of its passages, two of them  *)
(* placeholders.                                                           *)
(***************************************************************************)
calculatorToolSelectionTemplate ==
    <<"User Request:", "{{userMessage}}", "Available Tools:",
      "{{mcpProvider.text}}", "select the calculator tool">>

weatherToolSelectionTemplate ==
    <<"User Request:", "{{userMessage}}", "Available Tools:",
      "{{mcpProvider.text}}", "select the weather tool">>

\* the replacement patterns of String.prototype.replace: $& stands for the
\* matched text
Expand(replacement, pattern) ==
    [i \in 1..Len(replacement) |->
        IF replacement[i] = "$&" THEN pattern ELSE replacement[i]]

\* String.prototype.replace(pattern, replacement) with a string pattern: the
\* first occurrence only
Replace(str, pattern, replacement) ==
    IF \E i \in 1..Len(str) : str[i] = pattern
    THEN LET i == CHOOSE k \in 1..Len(str) :
                      str[k] = pattern /\ \A l \in 1..(k - 1) : str[l] # pattern
         IN  SubSeq(str, 1, i - 1) \o Expand(replacement, pattern)
             \o SubSeq(str, i + 1, Len(str))
    ELSE str

\* calculatorRegex.test(userMessage), lines 108-109: a word with digits
\* around an operator, or a calculation verb
calculatorRegex(userMessage) ==
    \E i \in 1..Len(userMessage) : userMessage[i] \in {"2+2", "add"}

\* weatherRegex.test(userMessage), lines 112-113: a weather noun, later one
\* of the prepositions, later the last group, which with the flag i matches
\* any run of two letters
weatherRegex(userMessage) ==
    \E i, j, k \in 1..Len(userMessage) :
        /\ i < j
        /\ j < k
        /\ userMessage[i] \in {"weather"}
        /\ userMessage[j] \in {"in"}
        /\ userMessage[k] \in {"add", "weather", "in", "Paris",
                               "{{mcpProvider.text}}"}

\* state.mcpProvider?.text || fallback
TextOr(text, fallback) == IF text = <<>> THEN fallback ELSE text

\* a classification that tests the weather pattern first
createToolSelectionFeedbackPromptWeatherFirst(originalResponse, errorMessage, text, userMessage) ==
    IF weatherRegex(userMessage)
    THEN Replace(Replace(weatherToolSelectionTemplate, "{{userMessage}}", userMessage),
                 "{{mcpProvider.text}}", TextOr(text, <<>>))
    ELSE IF calculatorRegex(userMessage)
    THEN Replace(Replace(calculatorToolSelectionTemplate, "{{userMessage}}",
                         userMessage),
                 "{{mcpProvider.text}}", TextOr(text, <<>>))
    ELSE <<"Your previous tool selection response had errors:", errorMessage,
           "User request:">> \o userMessage \o <<"Available MCP tools:">>
         \o TextOr(text, <<"No tools available">>)
         \o <<"select the most appropriate tool">>

\* createToolSelectionFeedbackPrompt, lines 101-155
createToolSelectionFeedbackPrompt(originalResponse, errorMessage, text, userMessage) ==
    IF calculatorRegex(userMessage)
    THEN Replace(Replace(calculatorToolSelectionTemplate, "{{userMessage}}",
                         userMessage),
                 "{{mcpProvider.text}}", TextOr(text, <<>>))
    ELSE IF weatherRegex(userMessage)
    THEN Replace(Replace(weatherToolSelectionTemplate, "{{userMessage}}", userMessage),
                 "{{mcpProvider.text}}", TextOr(text, <<>>))
    ELSE <<"Your previous tool selection response had errors:", errorMessage,
           "User request:">> \o userMessage \o <<"Available MCP tools:">>
         \o TextOr(text, <<"No tools available">>)
         \o <<"select the most appropriate tool">>

\* createResourceSelectionFeedbackPrompt, lines 157-187
createResourceSelectionFeedbackPrompt(originalResponse, errorMessage, text, userMessage) ==
    <<"Your previous resource selection response had errors:", errorMessage,
      "User request:">> \o userMessage \o <<"Available MCP resources:">>
    \o TextOr(text, <<"No resources available">>)
    \o <<"select the most appropriate resource">>

\* a feedback prompt is built after a rejection
FeedbackPrompt(builder, originalResponse, errorMessage, text, userMessage) ==
    /\ MayCall
    /\ act' = [NoAct EXCEPT
                  !.pc = "done", !.handler = builder,
                  !.original = originalResponse, !.err = errorMessage,
                  !.text = text, !.user = userMessage,
                  !.prompt =
                      IF builder = "createToolSelectionFeedbackPrompt"
                      THEN createToolSelectionFeedbackPrompt(
                               originalResponse, errorMessage, text, userMessage)
                      ELSE createResourceSelectionFeedbackPrompt(
                               originalResponse, errorMessage, text, userMessage),
                  !.out = "returned",
                  !.n = act.n + 1]
    /\ UNCHANGED <<connections, conn, nObj, hasResourcefulServers, mcpProvider,
                   initializationError, task, ret, cur, workload, exc, cbCount,
                   opCount, hist, read, reg>>

\* a JSON number
JSONnumber(v) ==
    CASE v = <<"0">> -> 0
      [] v = <<"30">> -> 30
      [] v = <<"5000">> -> 5000

\* a value that || takes
Truthy(v) == v # Undefined /\ v # <<"0">> /\ v # <<"">>

DEFAULT_MCP_TIMEOUT_SECONDS == 60

\* a callTool that prefers timeout to timeoutInMillis
CallToolTimeoutSwapped(stored) ==
    LET config == JSONparse(stored)
    IN  IF Truthy(Get(config, "timeout"))
        THEN JSONnumber(Get(config, "timeout"))
        ELSE IF Truthy(Get(config, "timeoutInMillis"))
        THEN JSONnumber(Get(config, "timeoutInMillis"))
        ELSE DEFAULT_MCP_TIMEOUT_SECONDS * 1000

\* lines 513-518: config.timeoutInMillis || config.timeout || timeout
CallToolTimeout(stored) ==
    LET config == JSONparse(stored)
    IN  IF Truthy(Get(config, "timeoutInMillis"))
        THEN JSONnumber(Get(config, "timeoutInMillis"))
        ELSE IF Truthy(Get(config, "timeout"))
        THEN JSONnumber(Get(config, "timeout"))
        ELSE DEFAULT_MCP_TIMEOUT_SECONDS * 1000

\* how client.callTool may end: with a content array (empty or not), with
\* no result, with a result whose content is not an array, with an error of
\* the provider, or with the timeout error of the request
ToolCallResults == {"content", "empty", "missing", "invalid", "failed", "timeout"}

\* the message of the error client.callTool threw
RemoteError(result) ==
    IF result = "failed" THEN "request failed" ELSE "Request timed out"

\* a callTool that hands on whatever the provider answered
CallToolOutcomeUnchecked(result) ==
    IF result \in {"failed", "timeout"}
    THEN [out |-> "threw", err |-> RemoteError(result)]
    ELSE [out |-> "returned", err |-> ""]

\* lines 537-548: the test of the result, and the catch block that logs and
\* rethrows
CallToolOutcome(result) ==
    IF result \in {"failed", "timeout"}
    THEN [out |-> "threw", err |-> RemoteError(result)]
    ELSE IF result \in {"missing", "invalid"}
    THEN [out |-> "threw", err |-> "Invalid tool result"]
    ELSE [out |-> "returned", err |-> ""]

\* callTool, lines 497-531: up to the await of client.callTool
CallToolStart(serverName, toolName) ==
    /\ MayAct
    /\ LET connection == getServerConnection(serverName)
           a == [NoAct EXCEPT !.handler = "callTool", !.n = act.n + 1,
                              !.sel = Selected([NoObject EXCEPT
                                          !.serverName = serverName,
                                          !.toolName = toolName])]
       IN  act' =
             IF connection = 0
             THEN [a EXCEPT !.pc = "done", !.out = "threw",
                            !.err = "MCP server not found"]
             ELSE IF conn[connection].status # "connected"
             THEN [a EXCEPT !.pc = "done", !.out = "threw",
                            !.err = "MCP server is not connected"]
             ELSE [a EXCEPT !.pc = "ct_wait",
                            !.calls = <<ClientCallTool(serverName, toolName, "{}",
                                          CallToolTimeout(conn[connection].config))>>]
    /\ UNCHANGED <<connections, conn, nObj, hasResourcefulServers, mcpProvider,
                   initializationError, task, ret, cur, workload, exc, cbCount,
                   opCount, hist, read, reg>>

\* callTool, lines 531-548: client.callTool returned or threw
CallToolReturned ==
    /\ cur = 0
    /\ act.pc = "ct_wait"
    /\ \E result \in ToolCallResults :
          act' = [act EXCEPT
                     !.pc = "done",
                     !.res = Rejected(result, <<>>),
                     !.out = CallToolOutcome(result).out,
                     !.err = CallToolOutcome(result).err]
    /\ UNCHANGED <<connections, conn, nObj, hasResourcefulServers, mcpProvider,
                   initializationError, task, ret, cur, workload, exc, cbCount,
                   opCount, hist, read, reg>>

(***************************************************************************)
(* The specifications.                                                     *)
(***************************************************************************)
InitWith(S, cs, c) ==
    /\ connections = cs
    /\ conn = c
    /\ nObj = Len(cs)
    /\ hasResourcefulServers = SomeResourceful(getServers(cs, c, NoError))
    /\ mcpProvider = buildMcpProviderData(getServers(cs, c, NoError))
    /\ initializationError = NoError
    /\ task = [t \in Slots |-> <<>>]
    /\ ret = [t \in Slots |-> NoRet]
    /\ cur = 0
    /\ workload = S
    /\ exc = [t \in Slots |-> FALSE]
    /\ cbCount = 0
    /\ opCount = 0
    /\ hist = NoHist
    /\ read = NoRead
    /\ act = NoAct
    /\ reg = NoReg

\* handlers may overlap at their awaits; one server name
RaceMaps == {<<<<"a", CfgN8n>>>>}

\* the service after initialize() connected server "a"
ConnectedA ==
    [o \in ObjIds |->
        IF o = 1
        THEN FinalServer([NoConn EXCEPT !.cbReg = TRUE, !.hs = "ok"],
                         "a", CfgStdio, <<EchoTool>>, <<>>, <<>>)
        ELSE NoConn]

InitRace == InitWith([slots |-> Slots, ops |-> MaxOps, names |-> {"a"},
                      maps |-> RaceMaps,
                      tools |-> {Ok(<<EchoTool>>)},
                      resources |-> {MethodNotFound},
                      templates |-> {MethodNotFound}],
                     <<1>>, ConnectedA)

\* the tools, resources and templates a provider may list in SpecRead
CalculatorTool == Tool("calculator", "adds numbers")
WeatherTool == Tool("weather", "tells the weather")
AddTool == Tool("add", "")
ToolUniverse == {CalculatorTool, WeatherTool, EchoTool, AddTool}
ToolLists == UNION {[1..n -> ToolUniverse] : n \in 0..MaxTools}
RealCalculator == [uri |-> CalculatorUri, name |-> <<"calc">>,
                   description |-> "calc", templateUri |-> <<>>]
RealEcho == [uri |-> ToolUri("a", "echo"), name |-> <<"echo">>,
             description |-> "echo", templateUri |-> <<>>]
CfgDisabled == CfgStdio \o << <<"disabled", <<"true">>>> >>

InitRead ==
    InitWith([slots |-> {1}, ops |-> 1, names |-> {"a"},
              maps |-> {<< <<"a", c>> >> : c \in {CfgStdio, CfgN8n, CfgDisabled}},
              tools |-> {OtherError} \cup {Ok(l) : l \in ToolLists},
              resources |-> {MethodNotFound, Ok(<<RealResource>>),
                             Ok(<<RealResource, RealCalculator>>),
                             Ok(<<RealEcho>>)},
              templates |-> {MethodNotFound, Ok(<<RealTemplate>>)}],
             <<>>, [o \in ObjIds |-> NoConn])

\* a service not yet made: registerMcpService is called on up to two
\* slots, and the settings hold one server
InitReg ==
    InitWith([slots |-> Slots, ops |-> MaxTasks, names |-> {"a"},
              maps |-> {<< <<"a", c>> >> : c \in {CfgStdio, CfgN8n}},
              tools |-> ToolsResponses, resources |-> ResourcesResponses,
              templates |-> TemplatesResponses],
             <<>>, [o \in ObjIds |-> NoConn])

\* one handler at a time (transport callbacks still fire at its awaits)
InitSeq == InitWith([slots |-> {1}, ops |-> MaxOps, names |-> Names,
                     maps |-> DesiredMaps,
                     tools |-> ToolsResponses, resources |-> ResourcesResponses,
                     templates |-> TemplatesResponses],
                    <<>>, [o \in ObjIds |-> NoConn])

Next ==
    \/ \E t \in Slots, d \in workload.maps : StartInitialize(t, d)
    \/ \E t \in Slots : StartInitializeNoSettings(t)
    \/ \E t \in Slots : UpdateLoop1(t)
    \/ \E t \in Slots : UpdateLoop2(t)
    \/ \E t \in Slots : UpdateAfterDelete(t)
    \/ \E t \in Slots : UpdateAfterConnect(t)
    \/ \E t \in Slots : InitAfterUpdate(t)
    \/ \E t \in Slots : DeleteStart(t)
    \/ \E t \in Slots : DeleteTransportClosed(t)
    \/ \E t \in Slots : DeleteClientClosed(t)
    \/ \E t \in Slots, n \in workload.names : StartDelete(t, n)
    \/ \E t \in Slots : CallerAfterDelete(t)
    \/ \E t \in Slots : ConnectStart(t)
    \/ \E t \in Slots : ConnectBuilt(t)
    \/ \E t \in Slots : ConnectHandshake(t)
    \/ \E t \in Slots : ConnectTools(t)
    \/ \E t \in Slots : ConnectResources(t)
    \/ \E t \in Slots : ConnectTemplates(t)
    \/ \E t \in Slots, n \in workload.names : StartRestart(t, n)
    \/ \E t \in Slots : RestartAfterDelete(t)
    \/ \E t \in Slots : RestartAfterConnect(t)
    \/ \E t \in Slots : StartStop(t)
    \/ \E t \in Slots : StopAfterDelete(t)
    \/ \E o \in ObjIds : TransportOnError(o)
    \/ \E o \in ObjIds : TransportOnClose(o)

\* the handlers that overlap in SpecRace: initialize, restartConnection, stop
NextRace ==
    \/ \E t \in Slots, d \in workload.maps : StartInitialize(t, d)
    \/ \E t \in Slots : UpdateLoop1(t)
    \/ \E t \in Slots : UpdateLoop2(t)
    \/ \E t \in Slots : UpdateAfterDelete(t)
    \/ \E t \in Slots : UpdateAfterConnect(t)
    \/ \E t \in Slots : InitAfterUpdate(t)
    \/ \E t \in Slots : DeleteStart(t)
    \/ \E t \in Slots : DeleteTransportClosed(t)
    \/ \E t \in Slots : DeleteClientClosed(t)
    \/ \E t \in Slots : ConnectStart(t)
    \/ \E t \in Slots : ConnectBuilt(t)
    \/ \E t \in Slots : ConnectHandshake(t)
    \/ \E t \in Slots : ConnectTools(t)
    \/ \E t \in Slots : ConnectResources(t)
    \/ \E t \in Slots : ConnectTemplates(t)
    \/ \E t \in Slots, n \in workload.names : StartRestart(t, n)
    \/ \E t \in Slots : RestartAfterDelete(t)
    \/ \E t \in Slots : RestartAfterConnect(t)
    \/ \E t \in Slots : StartStop(t)
    \/ \E t \in Slots : StopAfterDelete(t)
    \/ \E o \in ObjIds : TransportOnError(o)
    \/ \E o \in ObjIds : TransportOnClose(o)

\* the texts and objects the validators are called on in SpecText: every
\* text of at most MaxParts parts, and the texts made of two blocks
TextParts ==
    {Fence, Prose, ObjectText(ValidTool), ObjectText(ValidResource),
     ObjectText(OnlyServer)}
Blocks ==
    {<<Prose>>, <<Fence, Prose, Fence>>}
    \cup {<<Fence, ObjectText(o), Fence>> : o \in {ValidTool, ValidResource, OnlyServer}}
Texts ==
    UNION {[1..n -> TextParts] : n \in 0..MaxParts}
    \cup {a \o b : a, b \in Blocks}
    \cup {a \o <<Prose>> \o b : a, b \in Blocks}
ValidatedData ==
    {String(toks) : toks \in Texts} \cup {NativeObject(o) : o \in AnsweredObjects}

\* the arguments of the feedback prompts in SpecText: the user's request is
\* any text of at most MaxWords words
Words == {"2+2", "add", "weather", "in", "Paris", "5", "$&", "{{mcpProvider.text}}"}
UserMessages == UNION {[1..n -> Words] : n \in 0..MaxWords}
OriginalResponses == {"{\"serverName\": \"n8n\"}"}
ErrorMessages == {"must have required property toolName"}
ProviderTexts == {<<>>, <<"server a:", "tool echo">>}

\* the validators and the feedback prompts of validation.ts called directly
NextText ==
    \/ \E validator \in {"validateToolSelection", "validateResourceSelection"},
          data \in ValidatedData : ValidateText(validator, data)
    \/ \E builder \in {"createToolSelectionFeedbackPrompt",
                       "createResourceSelectionFeedbackPrompt"},
          originalResponse \in OriginalResponses, errorMessage \in ErrorMessages,
          text \in ProviderTexts, userMessage \in UserMessages :
           FeedbackPrompt(builder, originalResponse, errorMessage, text, userMessage)

\* the configurations of SpecAct: with and without the two timeouts
TimeoutConfigs ==
    {CfgStdio \o a \o b :
        a \in {<<>>, << <<"timeoutInMillis", <<"0">>>> >>,
               << <<"timeoutInMillis", <<"5000">>>> >>},
        b \in {<<>>, << <<"timeout", <<"0">>>> >>, << <<"timeout", <<"30">>>> >>}}

\* the objects validateToolSelection is called on in SpecAct
ToolObjects ==
    {[NoObject EXCEPT !.serverName = s, !.toolName = t, !.arguments = a,
                      !.noToolAvailable = e] :
        s \in {Absent, "a", "n8n"}, t \in {Absent, "echo", "calculator"},
        a \in {Absent, "{}"}, e \in {Absent, "true", "false"}}

\* a service that holds no connection
InitText ==
    InitWith([slots |-> {}, ops |-> 0, names |-> {}, maps |-> {},
              tools |-> {}, resources |-> {}, templates |-> {}],
             <<>>, [o \in ObjIds |-> NoConn])

\* the service after initialize() connected server "a"; its transport may
\* have closed since
InitAct ==
    \E cfg \in TimeoutConfigs, status \in {"connected", "disconnected"} :
        InitWith([slots |-> {}, ops |-> 0, names |-> {"a"}, maps |-> {},
                  tools |-> {}, resources |-> {}, templates |-> {}],
                 <<1>>,
                 [o \in ObjIds |->
                     IF o = 1
                     THEN [FinalServer([NoConn EXCEPT !.cbReg = TRUE, !.hs = "ok"],
                                       "a", cfg, <<EchoTool>>, <<>>, <<>>)
                              EXCEPT !.status = status]
                     ELSE NoConn])

NextAct ==
    \/ \E handler \in {"tool", "resource"}, cb \in BOOLEAN, available \in BOOLEAN,
          max \in 1..MaxRetries, first \in Candidates :
           HandlerStart(handler, cb, available, max, first)
    \/ RetryAttempt
    \/ HandlerSelected
    \/ HandlerReadReturned
    \/ \E o \in ToolObjects : ValidateCall(o)
    \/ \E serverName \in Names, toolName \in {"echo", "ghost"} :
           CallToolStart(serverName, toolName)
    \/ CallToolReturned

\* a service initialized once with one server, and read
NextRead ==
    \/ \E t \in Slots, d \in workload.maps : StartInitialize(t, d)
    \/ \E t \in Slots : UpdateLoop1(t)
    \/ \E t \in Slots : UpdateLoop2(t)
    \/ \E t \in Slots : UpdateAfterConnect(t)
    \/ \E t \in Slots : InitAfterUpdate(t)
    \/ \E t \in Slots : ConnectStart(t)
    \/ \E t \in Slots : ConnectBuilt(t)
    \/ \E t \in Slots : ConnectHandshake(t)
    \/ \E t \in Slots : ConnectTools(t)
    \/ \E t \in Slots : ConnectResources(t)
    \/ \E t \in Slots : ConnectTemplates(t)
    \/ \E n \in ReadServers, u \in ReadUris : ReadStart(n, u)
    \/ ReadWeatherReturned
    \/ ReadNativeReturned

\* calls of registerMcpService, interleaved at the await of initialize()
NextReg ==
    \/ HostRegisters
    \/ \E k \in Slots, d \in workload.maps : RegisterCall(k, d)
    \/ \E k \in Slots : RegisterAfterInitialize(k)
    \/ \E t \in Slots : UpdateLoop1(t)
    \/ \E t \in Slots : UpdateLoop2(t)
    \/ \E t \in Slots : UpdateAfterConnect(t)
    \/ \E t \in Slots : InitAfterUpdate(t)
    \/ \E t \in Slots : ConnectStart(t)
    \/ \E t \in Slots : ConnectBuilt(t)
    \/ \E t \in Slots : ConnectHandshake(t)
    \/ \E t \in Slots : ConnectTools(t)
    \/ \E t \in Slots : ConnectResources(t)
    \/ \E t \in Slots : ConnectTemplates(t)

\* one handler at a time, from the service as constructed
Spec == InitSeq /\ [][Next]_vars

\* two handlers interleaved at their awaits, from a service that holds one
\* connected server
SpecRace == InitRace /\ [][NextRace]_vars

\* one initialize() of a service configured with one server, and reads
SpecRead == InitRead /\ [][NextRead]_vars
SpecAct == InitAct /\ [][NextAct]_vars

\* the validators and the feedback prompts of validation.ts, called on texts
SpecText == InitText /\ [][NextText]_vars

\* registerMcpService called up to MaxRegs times on one runtime
SpecReg == InitReg /\ [][NextReg]_vars

(***************************************************************************)
(* The properties.                                                         *)
(***************************************************************************)

\* C1: in every reachable state, interleavings of reconcile, restart, connect,
\* delete and the transport callbacks included, no two entries of the
\* connection set have the same server name.
C1_UniqueNames ==
    \A i, j \in 1..Len(connections) :
        i # j => conn[connections[i]].name # conn[connections[j]].name

\* C2: a second updateServerConnections(cfg) right after the first leaves the
\* connection set as the first run left it, and closes or recreates no
\* connection: while the repeated run executes and when it has returned, the
\* set holds the same connection objects, no object was created and no
\* transport or client was closed.
C2_ReconcileIdempotent ==
    \A t \in Slots :
        (\/ ~Idle(t) /\ task[t][1].fn = "initialize" /\ task[t][1].repeat
         \/ ret[t].op = "initialize" /\ ret[t].repeat)
        => /\ hist.valid
           /\ connections = hist.conns
           /\ nObj = hist.nObj
           /\ TotalCloses = hist.closes

\* C2 witness: a repeated run returned with a connection in the set
C2_Witness ==
    \E t \in Slots :
        /\ ret[t].op = "initialize"
        /\ ret[t].repeat
        /\ connections # <<>>

ChangedAtStart(t) ==
    {o \in Range(ret[t].pre) :
        \E i \in 1..Len(ret[t].desired) :
            /\ ret[t].desired[i][1] = conn[o].name
            /\ JSONstringify(ret[t].desired[i][2]) # conn[o].config}

\* C4: for every name in the set and in the desired map with a different
\* serialized config, reconciliation closes the old connection's transport and
\* client exactly once each, before the transport of the replacement is created.
C4_ChangedClosedOnce ==
    \A t \in Slots :
        ret[t].op = "initialize"
        => \A o \in ChangedAtStart(t) :
               /\ conn[o].tClose = 1
               /\ conn[o].cClose = 1
               /\ \A n \in 1..nObj :
                      (n > o /\ conn[n].name = conn[o].name) => ~conn[n].overlap

\* C5: under every interleaving of reconcile, restartConnection and the
\* transport callbacks, the creation of a transport and client for a name
\* never begins before the deletion of the previous connection of that name
\* has completed.
C5_NoOverlap ==
    \A o \in 1..nObj : ~conn[o].overlap

\* C6: once the transport onError or onClose callback of a connection has
\* fired, the connection's status is disconnected and stays so until the
\* connection is deleted or reconnected, also when the callback fires while
\* connectToServer is still fetching capabilities.
C6_StaysDisconnected ==
    \A o \in Range(connections) :
        (conn[o].cbFired /\ ~conn[o].restarting)
        => conn[o].status = "disconnected"

\* C7: in every state in which no connect, delete or callback is in progress,
\* checkResourceAvailability() is true if and only if some connection of the
\* set has status connected and a non-empty resource list.
C7_FlagAccurate ==
    (cur = 0 /\ \A t \in Slots : Idle(t))
    => (checkResourceAvailability
        <=> \E o \in Range(connections) :
                /\ conn[o].status = "connected"
                /\ conn[o].resources # <<>>)

\* C8: when the handshake of connectToServer has failed, the connection of
\* that name is in the set with status disconnected and the failure message
\* in its accumulated error text, until it is deleted or restarted; and
\* connectToServer raises nothing to its caller.
C8_HandshakeFailure ==
    /\ \A o \in 1..nObj :
           (conn[o].hs = "failed" /\ ~conn[o].restarting)
           => /\ o \in Range(connections)
              /\ conn[o].status = "disconnected"
              /\ \E k \in 1..Len(conn[o].error) :
                     conn[o].error[k] = HandshakeErrorMsg[1]
    /\ \A t \in Slots : ~exc[t]

\* C8 witness: a connection whose handshake failed is in the set, disconnected,
\* with the failure message as its whole error text
C8_Witness ==
    \E o \in Range(connections) :
        /\ conn[o].hs = "failed"
        /\ conn[o].status = "disconnected"
        /\ conn[o].error = HandshakeErrorMsg

\* C9: after a successful handshake, a failure of listTools, listResources or
\* listResourceTemplates never turns the connection disconnected: a connection
\* of the set whose handshake succeeded and whose transport callbacks have not
\* fired has status connected, until it is restarted; its capability lists are
\* those the fetches delivered, empty for a fetch that failed.
C9_FetchFailureKeepsConnected ==
    \A o \in Range(connections) :
        (conn[o].hs = "ok" /\ ~conn[o].cbFired /\ ~conn[o].restarting)
        => /\ conn[o].status = "connected"
           /\ conn[o].tools \in {<<>>, <<EchoTool>>}

\* C9 witness: a connection was finalized after its tools fetch had failed: it
\* is connected with an empty tools list
C9_Witness ==
    \E o \in Range(connections) :
        /\ conn[o].hs = "ok"
        /\ conn[o].finalized
        /\ ~conn[o].cbFired
        /\ conn[o].tools = <<>>
        /\ conn[o].status = "connected"

\* C10 as stated: restartConnection(name) fails with an error when no
\* connection named name is in the set.
C10_RestartUnknownFails ==
    \A t \in Slots :
        (ret[t].op = "restart" /\ ~ret[t].found) => ret[t].threw

\* C10, amended: restartConnection(name) returns without an error when no
\* connection named name is in the set, and changes nothing in the set.
C10_RestartUnknownReturns ==
    \A t \in Slots :
        (ret[t].op = "restart" /\ ~ret[t].found)
        => /\ ~ret[t].threw
           /\ connections = ret[t].pre
           /\ \A i \in 1..Len(connections) :
                  conn[connections[i]].name # ret[t].name

\* C10 witness: restartConnection returned for a name that the non-empty set
\* does not hold
C10_Witness ==
    \E t \in Slots :
        /\ ret[t].op = "restart"
        /\ ~ret[t].found
        /\ connections # <<>>

\* C11: for a server config that lacks its required field (stdio without
\* command, sse without url) the connection attempt fails before a transport
\* is created and before an entry of that name is added to the set, and
\* reconciliation still processes every other name of the desired map: when
\* it has returned, the set holds no entry for such a name and an entry with
\* the desired config for every other name.
C11_MissingFieldConfined ==
    /\ \A t \in Slots :
           (/\ ~Idle(t)
            /\ Top(t).fn = "connect"
            /\ Top(t).pc = "c_built"
            /\ Top(t).cfg \in {CfgNoCommand, CfgNoUrl})
           => /\ ~Top(t).built
              /\ Top(t).obj = 0
              /\ \A i \in 1..Len(connections) :
                     conn[connections[i]].name # Top(t).name
    /\ \A t \in Slots :
           ret[t].op = "initialize"
           => \A k \in 1..Len(ret[t].desired) :
                  LET name == ret[t].desired[k][1]
                      config == ret[t].desired[k][2]
                      entries == {o \in Range(connections) : conn[o].name = name}
                  IN  IF config \in {CfgNoCommand, CfgNoUrl}
                      THEN entries = {}
                      ELSE \E o \in entries :
                               conn[o].config = JSONstringify(config)

\* C11 witness: a reconciliation returned whose first name had no url and
\* whose second name is in the set
C11_Witness ==
    \E t \in Slots :
        /\ ret[t].op = "initialize"
        /\ Len(ret[t].desired) = 2
        /\ ret[t].desired[1][2] = CfgNoUrl
        /\ \E o \in Range(connections) : conn[o].name = ret[t].desired[2][1]
        /\ \A o \in Range(connections) : conn[o].name # ret[t].desired[1][1]

\* C12 as stated: for every server name s, readResource(s, the calculator
\* URI) returns a response whose content is error-typed and issues no remote
\* call.
C12_CalculatorAnyServer ==
    (read.pc = "done" /\ read.uri = CalculatorUri)
    => /\ read.out.kind = "return"
       /\ \A i \in 1..Len(read.out.contents) :
              read.out.contents[i].mimeType = "application/mcp-error"
       /\ read.calls = <<>>

\* C12, amended: for every server name s that names a connection of the set,
\* readResource(s, the calculator URI) returns one error-typed content
\* (mimeType application/mcp-error) and issues no remote call; for a name
\* without a connection it throws, also without a remote call.
C12_CalculatorErrorBody ==
    (read.pc = "done" /\ read.uri = CalculatorUri)
    => /\ read.calls = <<>>
       /\ IF read.obj = 0 THEN read.out.kind = "throw"
          ELSE /\ read.out.kind = "return"
               /\ Len(read.out.contents) = 1
               /\ read.out.contents[1].mimeType = "application/mcp-error"
               /\ read.out.contents[1].uri = CalculatorUri

\* C12 witness: the calculator URI was read on an existing connection
C12_Witness ==
    /\ read.pc = "done"
    /\ read.uri = CalculatorUri
    /\ read.obj # 0
    /\ read.out.kind = "return"

OwnToolRead ==
    /\ read.pc = "done"
    /\ read.obj # 0
    /\ Len(read.uri) = 6
    /\ SubSeq(read.uri, 1, 5) = <<"mcp:", "", read.server, "synthetic", "tool">>
    /\ read.uri[6] # ""

\* C14 as stated: for a URI mcp://{server}/synthetic/tool/{toolName} with
\* {server} the requested name, readResource fails (raises) with ToolNotFound
\* when the connection has no tool of that name and otherwise returns the
\* JSON description of the tool; it never issues a remote call.
C14_ToolNotFoundRaised ==
    OwnToolRead
    => /\ read.calls = <<>>
       /\ IF \E i \in 1..Len(read.tools) : read.tools[i].name = read.uri[6]
          THEN /\ read.out.kind = "return"
               /\ read.out.contents[1].mimeType = "application/json"
          ELSE read.out.kind = "throw"

\* C14, amended: for such a URI readResource never raises and never issues a
\* remote call: it returns an error-typed body (mimeType
\* application/mcp-error) when the connection has no tool of that name, and
\* the JSON description of the tool otherwise.
C14_ToolNotFoundBody ==
    OwnToolRead
    => /\ read.calls = <<>>
       /\ read.out.kind = "return"
       /\ Len(read.out.contents) = 1
       /\ IF \E i \in 1..Len(read.tools) : read.tools[i].name = read.uri[6]
          THEN /\ read.out.contents[1].mimeType = "application/json"
               /\ read.out.contents[1].text[1] = "name"
               /\ read.out.contents[1].text[3] = <<read.uri[6]>>
          ELSE read.out.contents[1].mimeType = "application/mcp-error"

\* C14 witness: a generic tool URI was read for a tool that the connection,
\* which lists tools, does not list
C14_Witness ==
    /\ OwnToolRead
    /\ read.tools # <<>>
    /\ \A i \in 1..Len(read.tools) : read.tools[i].name # read.uri[6]

\* C15: readResource fails with ConnectionNotFound when no connection of the
\* name exists, and with ServerDisabled when the named connection's server
\* config has disabled set to true; in both cases without a remote call.
C15_NotFoundOrDisabled ==
    read.pc = "done"
    => /\ read.obj = 0
          => /\ read.out.kind = "throw"
             /\ read.out.error = "No connection found"
             /\ read.calls = <<>>
       /\ (/\ read.obj # 0
           /\ \E k \in 1..Len(conn[read.obj].config) \div 3 :
                  /\ conn[read.obj].config[3 * k - 2] = "disabled"
                  /\ conn[read.obj].config[3 * k] = <<"true">>)
          => /\ read.out.kind = "throw"
             /\ read.out.error = "Server is disabled"
             /\ read.calls = <<>>

\* the URIs among those read that are neither the calculator URI, nor under
\* the weather prefix, nor a generic tool URI of the requested server
NativeUris(server) ==
    {<<"file:", "", "", "data">>,
     <<"mcp:", "", "n8n", "synthetic", "weather">>,
     <<"mcp:", "", server, "synthetic", "tool", "">>}
    \cup {<<"mcp:", "", other, "synthetic", "tool", "echo">> :
              other \in {"a", "b", "n8n"} \ {server}}

\* C16: readResource dispatches in a fixed order: the exact calculator URI,
\* the weather prefix, the generic tool pattern of the requested server;
\* every other URI on an existing connection, a generic tool URI of another
\* server included, goes to exactly one native read whose response or error
\* is returned unmodified.
C16_DispatchOrder ==
    (read.pc = "done" /\ read.obj # 0)
    => /\ read.uri = <<"mcp:", "", "n8n", "synthetic", "calculator">>
          => /\ read.calls = <<>>
             /\ read.out.kind = "return"
             /\ read.out.contents[1].mimeType = "application/mcp-error"
       /\ (/\ Len(read.uri) > 5
           /\ SubSeq(read.uri, 1, 5) = <<"mcp:", "", "n8n", "synthetic", "weather">>)
          => /\ \A i \in 1..Len(read.calls) : read.calls[i].call = "callTool"
             /\ read.out.kind = "return"
       /\ read.uri \in {<<"mcp:", "", read.server, "synthetic", "tool", n>> :
                            n \in {"echo", "calculator", "weather", "ghost"}}
          => /\ read.calls = <<>>
             /\ read.out.kind = "return"
       /\ read.uri \in NativeUris(read.server)
          => /\ read.calls = <<[call |-> "readResource", name |-> "",
                                 arg |-> read.uri]>>
             /\ IF read.got.err # ""
                THEN read.out.kind = "throw" /\ read.out.error = read.got.err
                ELSE read.out.kind = "return" /\ read.out.contents = read.got.list

\* C16 witness: a generic tool URI that names another server was read and
\* went to the native read
C16_Witness ==
    /\ read.pc = "done"
    /\ read.obj # 0
    /\ read.server = "a"
    /\ read.uri = <<"mcp:", "", "n8n", "synthetic", "tool", "echo">>
    /\ read.calls # <<>>
    /\ read.out.kind = "return"

\* C17: after a successful connect of a server whose tool list holds a tool
\* named calculator, the connection's resource list holds exactly one entry
\* with the URI mcp://n8n/synthetic/calculator, whatever the other tools and
\* the real resources are.
C17_OneCalculatorEntry ==
    \A o \in 1..nObj :
        (/\ conn[o].finalized
         /\ \E i \in 1..Len(conn[o].tools) : conn[o].tools[i].name = "calculator")
        => Cardinality({j \in 1..Len(conn[o].resources) :
                            conn[o].resources[j].uri =
                                <<"mcp:", "", "n8n", "synthetic", "calculator">>}) = 1

\* C17 witness: a connection was finalized with a calculator tool, another
\* tool, and real resources that hold the calculator URI already
C17_Witness ==
    \E o \in 1..nObj :
        /\ conn[o].finalized
        /\ Len(conn[o].tools) = 2
        /\ conn[o].tools[1].name = "echo"
        /\ conn[o].tools[2].name = "calculator"
        /\ \E j \in 1..Len(conn[o].actual) :
               conn[o].actual[j].uri = <<"mcp:", "", "n8n", "synthetic", "calculator">>

\* C18: after a successful connect of a server that reported zero real
\* resources and N tools with distinct names, none of them calculator or
\* weather, the connection's resource list holds exactly N entries, one per
\* tool, with pairwise distinct URIs mcp://{server}/synthetic/tool/{toolName}.
C18_OnePerTool ==
    \A o \in 1..nObj :
        (/\ conn[o].finalized
         /\ conn[o].actual = <<>>
         /\ \A i, k \in 1..Len(conn[o].tools) :
                i # k => conn[o].tools[i].name # conn[o].tools[k].name
         /\ \A i \in 1..Len(conn[o].tools) :
                conn[o].tools[i].name \notin {"calculator", "weather"})
        => /\ Len(conn[o].resources) = Len(conn[o].tools)
           /\ \A i \in 1..Len(conn[o].tools) :
                  \E j \in 1..Len(conn[o].resources) :
                      conn[o].resources[j].uri =
                          <<"mcp:", "", conn[o].name, "synthetic", "tool",
                            conn[o].tools[i].name>>
           /\ \A j, k \in 1..Len(conn[o].resources) :
                  j # k => conn[o].resources[j].uri # conn[o].resources[k].uri

\* C18 witness: a connection was finalized with two such tools and no real
\* resource
C18_Witness ==
    \E o \in 1..nObj :
        /\ conn[o].finalized
        /\ conn[o].actual = <<>>
        /\ Len(conn[o].tools) = 2
        /\ conn[o].tools[1].name = "echo"
        /\ conn[o].tools[2].name = "add"
        /\ Len(conn[o].resources) = 2

\* C19: after a successful connect, a tool named calculator or weather is
\* represented by its fixed-URI resource and template only: the connection's
\* resource and template lists hold no generic entry for it.
C19_SpecialsNotGeneric ==
    \A o \in 1..nObj :
        conn[o].finalized
        => \A n \in {"calculator", "weather"} :
               /\ \A j \in 1..Len(conn[o].resources) :
                      conn[o].resources[j].uri #
                          <<"mcp:", "", conn[o].name, "synthetic", "tool", n>>
               /\ \A j \in 1..Len(conn[o].resourceTemplates) :
                      conn[o].resourceTemplates[j].uriTemplate #
                          <<"mcp:", "", conn[o].name, "synthetic", "tool-template", n>>

\* the connection's resource list holds the generic resource of tool name n
HasGeneric(o, n) ==
    \E j \in 1..Len(conn[o].resources) :
        conn[o].resources[j].uri =
            <<"mcp:", "", conn[o].name, "synthetic", "tool", n>>

\* C20 as stated: after a successful connect every tool not named calculator
\* or weather has a generic resource in the connection's resource list,
\* whether or not the provider reported real resources; and when it reported
\* none, all tools have one.
C20_GenericAlways ==
    \A o \in 1..nObj :
        conn[o].finalized
        => /\ \A i \in 1..Len(conn[o].tools) :
                  conn[o].tools[i].name \notin {"calculator", "weather"}
                  => HasGeneric(o, conn[o].tools[i].name)
           /\ conn[o].actual = <<>>
              => \A i \in 1..Len(conn[o].tools) :
                     HasGeneric(o, conn[o].tools[i].name)

\* C20, amended: after a successful connect of an n8n server, or of a server
\* whose provider reported zero real resources, every tool not named
\* calculator (weather included) has a generic resource in the connection's
\* resource list; for any other server the list holds no generic resource
\* beyond the real ones; a tool named calculator is never given one.
C20_GenericWhenSynthesized ==
    \A o \in 1..nObj :
        conn[o].finalized
        => LET n8n == conn[o].config =
                          <<"type", ":", <<"sse">>,
                            "url", ":", <<"https://x.", "n8n.cloud", "/sse">>>>
               real == {conn[o].actual[j].uri : j \in 1..Len(conn[o].actual)}
           IN  /\ (n8n \/ conn[o].actual = <<>>)
                  => \A i \in 1..Len(conn[o].tools) :
                         conn[o].tools[i].name # "calculator"
                         => HasGeneric(o, conn[o].tools[i].name)
               /\ ~(n8n \/ conn[o].actual = <<>>)
                  => \A i \in 1..Len(conn[o].tools) :
                         HasGeneric(o, conn[o].tools[i].name)
                         => <<"mcp:", "", conn[o].name, "synthetic", "tool",
                              conn[o].tools[i].name>> \in real
               /\ ~HasGeneric(o, "calculator")

\* C20 witness: an n8n server that reported a real resource was finalized
\* with the generic resource of its weather tool
C20_Witness ==
    \E o \in 1..nObj :
        /\ conn[o].finalized
        /\ conn[o].actual # <<>>
        /\ conn[o].config # JSONstringify(CfgStdio)
        /\ Len(conn[o].tools) = 2
        /\ conn[o].tools[1].name = "weather"
        /\ HasGeneric(o, "weather")

\* the two fixed URIs of the special cases
SpecialUris ==
    {<<"mcp:", "", "n8n", "synthetic", "calculator">>,
     <<"mcp:", "", "n8n", "synthetic", "weather", "{location}">>}

\* the connection's list starts with the real resources in provider order
RealFirst(o) ==
    /\ Len(conn[o].resources) >= Len(conn[o].actual)
    /\ SubSeq(conn[o].resources, 1, Len(conn[o].actual)) = conn[o].actual

\* the synthesized entries of the connection's list: the positions after the
\* real ones
Synthesized(o) == (Len(conn[o].actual) + 1)..Len(conn[o].resources)

\* C21 as stated: the resource list of a connection after a successful
\* connect holds the real resources first, in provider order, then the
\* calculator/weather special entries, then the generic per-tool entries.
C21_SpecialsBeforeGeneric ==
    \A o \in 1..nObj :
        conn[o].finalized
        => /\ RealFirst(o)
           /\ \A i, j \in Synthesized(o) :
                  (/\ conn[o].resources[i].uri \notin SpecialUris
                   /\ conn[o].resources[j].uri \in SpecialUris)
                  => j < i

\* C21, amended: the resource list of a connection after a successful
\* connect holds the real resources first, in provider order, then the
\* generic per-tool entries in tool order, then the calculator entry, then
\* the weather entry.
C21_GenericBeforeSpecials ==
    \A o \in 1..nObj :
        conn[o].finalized
        => /\ RealFirst(o)
           /\ \A i, j \in Synthesized(o) :
                  (/\ conn[o].resources[i].uri \notin SpecialUris
                   /\ conn[o].resources[j].uri \in SpecialUris)
                  => i < j
           /\ \A i, j \in Synthesized(o) :
                  (/\ conn[o].resources[i].uri =
                          <<"mcp:", "", "n8n", "synthetic", "calculator">>
                   /\ conn[o].resources[j].uri =
                          <<"mcp:", "", "n8n", "synthetic", "weather", "{location}">>)
                  => i < j
           /\ \A i, j \in Synthesized(o) :
                  (/\ i < j
                   /\ conn[o].resources[i].uri \notin SpecialUris
                   /\ conn[o].resources[j].uri \notin SpecialUris)
                  => \E k, l \in 1..Len(conn[o].tools) :
                         /\ k < l
                         /\ conn[o].resources[i].uri[6] = conn[o].tools[k].name
                         /\ conn[o].resources[j].uri[6] = conn[o].tools[l].name

\* C21 witness: a connection was finalized with a real resource, then the
\* generic entry of its echo tool, then the calculator entry
C21_Witness ==
    \E o \in 1..nObj :
        /\ conn[o].finalized
        /\ Len(conn[o].actual) = 1
        /\ Len(conn[o].resources) = 3
        /\ conn[o].resources[1] = conn[o].actual[1]
        /\ conn[o].resources[2].uri = <<"mcp:", "", conn[o].name, "synthetic", "tool", "echo">>
        /\ conn[o].resources[3].uri = <<"mcp:", "", "n8n", "synthetic", "calculator">>

\* the entries of a list of resources have pairwise distinct URIs
DistinctUris(list) ==
    \A i, j \in 1..Len(list) : i # j => list[i].uri # list[j].uri

\* the entries of a list of templates have pairwise distinct template URIs
DistinctTemplateUris(list) ==
    \A i, j \in 1..Len(list) : i # j => list[i].uriTemplate # list[j].uriTemplate

\* C22: provided the providers' real resources have pairwise distinct URIs
\* and their real templates pairwise distinct template URIs, no connection's
\* resource list or template list ever holds two entries with the same URI.
C22_NoDuplicateUri ==
    (/\ \A r \in workload.resources : DistinctUris(r.list)
     /\ \A t \in workload.templates : DistinctTemplateUris(t.list))
    => \A o \in 1..nObj :
           /\ \A i, j \in 1..Len(conn[o].resources) :
                  i # j => conn[o].resources[i].uri # conn[o].resources[j].uri
           /\ \A i, j \in 1..Len(conn[o].resourceTemplates) :
                  i # j => conn[o].resourceTemplates[i].uriTemplate #
                               conn[o].resourceTemplates[j].uriTemplate

\* C22 witness: a connection was finalized for a provider that listed the
\* tool echo twice: the second generic resource and the second generic
\* template were not inserted
C22_Witness ==
    \E o \in 1..nObj :
        /\ conn[o].finalized
        /\ conn[o].actual = <<>>
        /\ Len(conn[o].tools) = 2
        /\ conn[o].tools[1].name = "echo"
        /\ conn[o].tools[2].name = "echo"
        /\ Len(conn[o].resources) = 1
        /\ Cardinality({j \in 1..Len(conn[o].resourceTemplates) :
               conn[o].resourceTemplates[j].uriTemplate =
                   <<"mcp:", "", conn[o].name, "synthetic", "tool-template", "echo">>}) = 1

\* what a callback may change of its own connection: the status and the
\* error text (cbFired and cbLate record that it ran)
SameButStatus(old, new) ==
    new = [old EXCEPT !.status = new.status, !.error = new.error,
                      !.cbFired = new.cbFired, !.cbLate = new.cbLate]

\* C28: a transport onError/onClose callback changes only the status and the
\* error text of the connection it was registered for, and the aggregate
\* availability flag: no field of another connection changes, a newer
\* connection of the same name included, and neither do the connection set,
\* the provider snapshot and the initialization error.
C28_CallbackFrame ==
    [][\A o \in ObjIds :
          (TransportOnError(o) \/ TransportOnClose(o))
          => /\ \A p \in ObjIds \ {o} : conn'[p] = conn[p]
             /\ SameButStatus(conn[o], conn'[o])
             /\ UNCHANGED <<connections, nObj, mcpProvider, initializationError,
                            task, ret>>]_vars

\* C28 witness: a callback ran on a connection that had been deleted, while
\* a newer connection of the same name is in the connection set
C28_Witness ==
    \E o, p \in 1..nObj :
        /\ o # p
        /\ conn[o].cbLate
        /\ conn[p].name = conn[o].name
        /\ p \in Range(connections)
        /\ conn[p].status = "connected"

\* C29: deleting a connection attempts to close both its transport and its
\* client, whatever either close does, and removes the connection from the
\* set: once deleteConnection has finished with a connection, both closes
\* were called on it and it is no longer in the set.
C29_BothClosesAttempted ==
    \A o \in 1..nObj :
        conn[o].released
        => /\ conn[o].tClose >= 1
           /\ conn[o].cClose >= 1
           /\ o \notin Range(connections)

\* the capability lists of a connection
Capabilities(r) == <<r.tools, r.resources, r.resourceTemplates>>

\* slot t's connect issued a capability fetch in this step
FetchIssuedBy(t) ==
    /\ task[t] # <<>>
    /\ task'[t] # <<>>
    /\ Last(task'[t]).pc \in {"c_tools", "c_res", "c_tmpl"}
    /\ Last(task'[t]).pc # Last(task[t]).pc
    /\ Last(task'[t]).issued

\* C30: a connection has status connected only after its handshake completed
\* successfully; a connect issues a capability fetch only on a connection
\* whose handshake completed and whose status is connected; the capability
\* lists of a connection change only when that connect writes its final
\* server record, all three together with the status connected.
C30_ConnectedAfterHandshake ==
    /\ [](\A o \in 1..nObj : conn[o].status = "connected" => conn[o].hs = "ok")
    /\ [][\A t \in Slots :
             FetchIssuedBy(t)
             => /\ conn'[Last(task'[t]).obj].hs = "ok"
                /\ conn'[Last(task'[t]).obj].status = "connected"]_vars
    /\ [][\A o \in ObjIds :
             Capabilities(conn'[o]) # Capabilities(conn[o])
             => \/ /\ conn'[o].status = "unreachable"
                   /\ Capabilities(conn'[o]) = <<<<>>, <<>>, <<>>>>
                \/ \E t \in Slots :
                       /\ At(t, "c_tmpl")
                       /\ Top(t).obj = o
                       /\ conn'[o].tools = Top(t).tools
                       /\ conn'[o].status = "connected"
                       /\ conn'[o].finalized]_vars

\* C30 witness: a connect wrote the capability lists of a connection that is
\* connected, in a behaviour where a transport callback has run
C30_Witness ==
    \E o \in 1..nObj :
        /\ conn[o].finalized
        /\ conn[o].status = "connected"
        /\ conn[o].hs = "ok"
        /\ conn[o].tools # <<>>
        /\ conn[o].resources # <<>>
        /\ cbCount > 0

\* the selection loop of the handler has ended
LoopEnded ==
    /\ act.handler \in {"tool", "resource"}
    /\ \/ act.pc \in {"h_selected", "h_read"}
       \/ act.pc = "done" /\ (act.attempts > 0 \/ ~act.sel.null)

\* C23: the selection loop never makes more failed attempts than the
\* configured maximum, every failed attempt counts as one whether it failed
\* at the parse or at the schema, and the loop ends without a selection
\* exactly when the maximum number of attempts has failed: with a validator
\* that rejects every candidate it makes exactly that many attempts and ends
\* with no selection.
C23_RetryBound ==
    /\ act.attempts <= act.max
    /\ Len(act.errs) = act.attempts
    /\ \A i \in 1..Len(act.errs) : act.errs[i] \in {"parse", "schema"}
    /\ LoopEnded => (act.sel.null <=> act.attempts = act.max)

\* C23 witness: with a maximum of two, the loop ended without a selection
\* after a candidate that did not parse and one that violated the schema
C23_Witness ==
    /\ LoopEnded
    /\ act.pc = "done"
    /\ act.sel.null
    /\ act.max = 2
    /\ act.attempts = 2
    /\ act.errs = <<"parse", "schema">>

\* the selection the loop returned carries the escape property of its handler
Escaped ==
    /\ ~act.sel.null
    /\ \/ act.handler = "resource" /\ act.sel.o.noResourceAvailable = "true"
       \/ act.handler = "tool" /\ act.sel.o.noToolAvailable = "true"

\* C24: when the selection loop ends without a selection, or with a
\* selection carrying noResourceAvailable / noToolAvailable, the handler makes
\* no readResource and no callTool call and returns true without an error.
C24_NoSelectionIsNormal ==
    (LoopEnded /\ (act.sel.null \/ Escaped))
    => /\ act.calls = <<>>
       /\ act.pc \in {"h_selected", "done"}
       /\ act.pc = "done" => (act.out = "true" /\ act.err = "")

\* C24 witness: the READ_MCP_RESOURCE handler returned true after a selection
\* with noResourceAvailable, having sent the fallback text
C24_Witness ==
    /\ LoopEnded
    /\ act.handler = "resource"
    /\ Escaped
    /\ act.pc = "done"
    /\ act.out = "true"
    /\ act.said = <<"initial", "fallback">>

\* C25: validateToolSelection accepts every object carrying serverName,
\* toolName and arguments, and every object carrying noToolAvailable = true;
\* it rejects the object {serverName: "n8n"} with a non-empty error; the
\* error of a rejected object names every required property it lacks.
C25_ToolSelectionValidated ==
    act.handler = "validate"
    => LET o == act.input.o
           res == act.res
       IN  /\ (o.serverName # "absent" /\ o.toolName # "absent"
                  /\ o.arguments # "absent")
              => (res.success /\ res.data = o)
           /\ o.noToolAvailable = "true" => res.success
           /\ (o.serverName = "n8n" /\ o.toolName = "absent"
                  /\ o.arguments = "absent" /\ o.noToolAvailable = "absent")
              => (~res.success /\ Len(res.error) > 1)
           /\ ~res.success
              => \A f \in {"serverName", "toolName", "arguments"} :
                     o[f] = "absent" => f \in Range(res.error)

\* C25 witness: validateToolSelection rejected {serverName: "n8n"} and named
\* both toolName and arguments
C25_Witness ==
    /\ act.handler = "validate"
    /\ act.input.o.serverName = "n8n"
    /\ act.input.o.noToolAvailable = "absent"
    /\ ~act.res.success
    /\ act.res.error = <<"schema", "toolName", "arguments">>

\* the configuration of the server a callTool call was made on
CalledConfig == JSONparse(conn[FindByName(act.sel.o.serverName)].config)

\* a client.callTool call was issued by callTool
ToolCalled == act.handler = "callTool" /\ act.calls # <<>>

C27_ToolCalledBeforeResponse ==
    (/\ act.handler = "tool"
     /\ act.pc = "done"
     /\ ~act.sel.null
     /\ act.sel.o.noToolAvailable # "true"
     /\ act.out = "true")
    => \E i \in 1..Len(act.calls) :
           /\ act.calls[i].call = "callTool"
           /\ act.calls[i].server = act.sel.o.serverName
           /\ act.calls[i].name = act.sel.o.toolName
           /\ act.calls[i].arguments = act.sel.o.arguments


\* error text old is kept at the front of error text new, and what follows
\* it begins on a new line
KeptInOrder(old, new) ==
    /\ Len(new) >= Len(old)
    /\ SubSeq(new, 1, Len(old)) = old
    /\ (old # <<>> /\ Len(new) > Len(old)) => new[Len(old) + 1] = "\n"

\* C31: the error text of a connection keeps every message appended to it, in
\* arrival order and newline-separated, until the connection is deleted or
\* restarted: in every step that leaves the connection in the set and does
\* not begin its restart, the old error text is the front of the new one; so
\* a transport error reported during a connect is still in the text when
\* that connect finishes.
C31_ErrorTextKept ==
    [][\A o \in ObjIds :
          (/\ o \in Range(connections)
           /\ o \in Range(connections')
           /\ ~(conn'[o].restarting /\ ~conn[o].restarting))
          => KeptInOrder(conn[o].error, conn'[o].error)]_vars

\* a validator was called on a text
ValidatedText(validator) ==
    act.pc = "done" /\ act.handler = validator /\ act.input.kind = "string"

\* the first fence marker of a text opens a block that holds one object
FirstBlockIsObject(toks) ==
    \E i \in 1..(Len(toks) - 2) :
        /\ \A k \in 1..(i - 1) : toks[k].t = "prose"
        /\ toks[i].t = "fence"
        /\ toks[i + 1].t = "object"
        /\ toks[i + 2].t = "fence"

\* the object of that block
FirstBlockObject(toks) ==
    toks[(CHOOSE i \in 1..Len(toks) : toks[i].t = "fence") + 1].o

Built(builder) == act.pc = "done" /\ act.handler = builder

\* the words of part appear in prompt, together and in order
Embeds(prompt, part) ==
    \E i \in 0..(Len(prompt) - Len(part)) :
        SubSeq(prompt, i + 1, i + Len(part)) = part

\* C33: whichever template is chosen, a feedback prompt embeds the original
\* response, the validation errors, the user's request and the capability
\* snapshot.
C33_FeedbackEmbedsAll ==
    \A builder \in {"createToolSelectionFeedbackPrompt",
                    "createResourceSelectionFeedbackPrompt"} :
        Built(builder)
        => /\ Embeds(act.prompt, <<act.original>>)
           /\ Embeds(act.prompt, <<act.err>>)
           /\ Embeds(act.prompt, act.user)
           /\ Embeds(act.prompt, act.text)

\* the passages that tell the three templates of tool feedback apart
TemplatesOf(prompt) ==
    {p \in {"select the calculator tool", "select the weather tool",
            "select the most appropriate tool"} :
        \E i \in 1..Len(prompt) : prompt[i] = p}

\* C34: tool-selection feedback classifies the user's text in a fixed order:
\* a text with an arithmetic expression or a calculation verb gets the
\* calculator template, a weather pattern in it or not; else a text with a
\* weather noun, then a preposition, then a word of letters gets the weather
\* template; else the generic corrective template; exactly one template is
\* chosen for every text.
C34_ClassificationOrder ==
    Built("createToolSelectionFeedbackPrompt")
    => LET u == act.user
           arithmetic == \E i \in 1..Len(u) : u[i] \in {"2+2", "add"}
           weather ==
               \E i, j, k \in 1..Len(u) :
                   /\ i < j /\ j < k
                   /\ u[i] = "weather"
                   /\ u[j] = "in"
                   /\ u[k] \in {"add", "weather", "in", "Paris",
                                "{{mcpProvider.text}}"}
       IN  TemplatesOf(act.prompt) =
               IF arithmetic THEN {"select the calculator tool"}
               ELSE IF weather THEN {"select the weather tool"}
               ELSE {"select the most appropriate tool"}

\* C34 witness: a request that matches both heuristics got the calculator
\* template
C34_Witness ==
    /\ Built("createToolSelectionFeedbackPrompt")
    /\ act.user = <<"add", "weather", "in", "Paris">>
    /\ TemplatesOf(act.prompt) = {"select the calculator tool"}

\* callTool has ended after client.callTool answered with result
CallToolEnded(result) ==
    /\ act.handler = "callTool"
    /\ act.pc = "done"
    /\ act.calls # <<>>
    /\ act.res.error = <<result>>

\* C35: callTool ends with an error thrown to its caller, and returns no
\* result, when the provider's response is missing or carries no content
\* array; an error of the remote call itself is thrown on to the caller with
\* its own message; a response with a content array is returned.
C35_InvalidResultRaised ==
    /\ (CallToolEnded("missing") \/ CallToolEnded("invalid"))
       => (act.out = "threw" /\ act.err = "Invalid tool result")
    /\ CallToolEnded("failed") => (act.out = "threw" /\ act.err = "request failed")
    /\ CallToolEnded("timeout")
       => (act.out = "threw" /\ act.err = "Request timed out")
    /\ (CallToolEnded("content") \/ CallToolEnded("empty"))
       => (act.out = "returned" /\ act.err = "")

\* C35 witness: the provider answered a tool call with a response that has
\* no content array, and callTool threw
C35_Witness ==
    /\ CallToolEnded("invalid")
    /\ act.calls[1].name = "echo"
    /\ act.out = "threw"

\* C36: neither callTool nor readResource issues a remote call (a tool call
\* or a native resource read) on a connection whose status is not connected:
\* whenever a call of one of them issues a remote call, the connection it
\* found has the status connected.
C36_RemoteCallsOnlyWhenConnected ==
    [][/\ (read'.n # read.n /\ read'.calls # <<>>)
          => /\ read'.obj # 0
             /\ conn[read'.obj].status = "connected"
       /\ (act'.n # act.n /\ act'.handler = "callTool" /\ act'.calls # <<>>)
          => /\ FindByName(act'.sel.o.serverName) # 0
             /\ conn[FindByName(act'.sel.o.serverName)].status = "connected"]_vars

\* no handler of the service is in flight
NoOperation == cur = 0 /\ \A t \in Slots : Idle(t)

\* C37: whenever no connection operation is in progress, the provider
\* snapshot returned by getProviderData() is the snapshot built from the
\* current getServers(): it is rebuilt after every change of the connection
\* set or of a connection's status, deleteConnection, stop and the transport
\* callbacks included.
C37_SnapshotCurrent ==
    NoOperation
    => mcpProvider =
           buildMcpProviderData(getServers(connections, conn, initializationError))

\* slot t's restartConnection of an existing connection completes in this step
RestartCompletes(t) ==
    /\ task[t] # <<>>
    /\ task[t][1].fn = "restart"
    /\ task'[t] = <<>>

\* the connections named name in the set cs, by the records c
Named(cs, c, name) == {i \in 1..Len(cs) : c[cs[i]].name = name}

\* C38: when restartConnection(name) of an existing connection completes,
\* the set holds exactly one connection named name; it is a connection
\* object made by this restart, so its error text holds no message from
\* before; its stored serialized config equals the config stored before the
\* restart; the other connections are the same objects in the same order;
\* and no step of the restart changes a field of another connection.
C38_RestartFrame ==
    /\ [][\A t \in Slots :
             RestartCompletes(t)
             => LET name == task[t][1].name
                    pre == task[t][1].arr
                    stored == task[t][1].cfg
                IN  /\ Cardinality(Named(connections', conn', name)) = 1
                    /\ \A i \in Named(connections', conn', name) :
                          /\ connections'[i] \notin Range(pre)
                          /\ connections'[i] > Len(pre)
                          /\ conn'[connections'[i]].config = stored
                    /\ SelectSeq(connections', LAMBDA o : conn'[o].name # name)
                       = SelectSeq(pre, LAMBDA o : conn'[o].name # name
                                                   /\ conn'[o].status # "unreachable")]_vars
    /\ [][\A t \in Slots :
             (/\ task[t] # <<>>
              /\ task[t][1].fn = "restart"
              /\ cbCount' = cbCount)
             => \A i \in 1..Len(connections) :
                    conn[connections[i]].name # task[t][1].name
                    => conn'[connections[i]] = conn[connections[i]]]_vars

\* C38 witness: a restart has completed with the restarted connection
\* connected under its old config and the other connection still in the set
C38_Witness ==
    \E t \in Slots :
        /\ ret[t].op = "restart"
        /\ ret[t].found
        /\ Len(connections) = 2
        /\ Len(ret[t].pre) = 2
        /\ \E i \in 1..2 : /\ conn[connections[i]].name = ret[t].name
                           /\ conn[connections[i]].status = "connected"
                           /\ conn[connections[i]].config = ret[t].desired

\* slot t's stop() completes in this step
StopCompletes(t) ==
    /\ task'[t] = <<>>
    /\ \/ /\ task[t] # <<>>
          /\ task[t][1].fn = "stop"
       \/ /\ task[t] = <<>>
          /\ ret'[t].op = "stop"
          /\ opCount' = opCount + 1

\* slot s's connectToServer adds its connection to the set in this step
\* (line 245)
ConnectPushes(s) ==
    /\ task[s] # <<>>
    /\ task'[s] # <<>>
    /\ Last(task[s]).pc = "c_built"
    /\ Last(task'[s]).pc = "c_handshake"

\* C39: when stop() completes the connection set is empty; a close was
\* attempted on the transport of every connection that was in the set when
\* stop began; and a connect that was in progress when stop completed does
\* not add a connection to the set afterwards, so the set stays empty.
C39_StoppedStaysEmpty ==
    /\ [][\A t \in Slots :
             StopCompletes(t)
             => /\ connections' = <<>>
                /\ task[t] # <<>>
                   => \A i \in 1..Len(task[t][1].todo) :
                          conn'[task[t][1].todo[i]].tClose >= 1]_vars
    /\ [][\A s \in Slots :
             (task[s] # <<>> /\ task[s][1].stopped)
             => /\ ~ConnectPushes(s)
                /\ connections' = <<>>]_vars

\* the calls of registerMcpService that have returned
ReturnedCalls == {k \in Slots : reg.call[k].pc = "returned"}

\* at most one McpService is made
OneInstanceMade == reg.created <= 1

\* every call returns the same object
SameInstanceReturned ==
    \A j, k \in ReturnedCalls : reg.call[j].result = reg.call[k].result

\* the object is registered only after its initialize() completed
RegisteredAfterInitialize ==
    /\ ~reg.registeredEarly
    /\ reg.registry # NoInstance => Initialized(reg.registry)

\* no call returns the object before its initialize() completed
ReturnedAfterInitialize == \A k \in ReturnedCalls : ~reg.call[k].early

\* C40: however calls of registerMcpService on one runtime follow or
\* interleave, at most one McpService is made, every call returns that same
\* object, the object is registered with the runtime only after its
\* initialize() completed, and no call returns it before its initialize()
\* completed.
C40_OneInitializedInstance ==
    /\ OneInstanceMade
    /\ SameInstanceReturned
    /\ RegisteredAfterInitialize
    /\ ReturnedAfterInitialize
====
